---- MODULE Spec2Model ----
(***************************************************************************)
(* Model of the per-message scanning task of rspamd                        *)
(* (src/libserver/task.c): task construction, message loading, the staged  *)
(* processing pipeline (rspamd_task_process), the session finalizer        *)
(* (rspamd_task_fin) and task destruction.                                 *)
(***************************************************************************)
EXTENDS Integers, Sequences, FiniteSets, TLC

VARIABLES
    flags,              \* task->flags, as the set of flag names that are set
    processed_stages,   \* task->processed_stages, a bitmap
    pre_result,         \* task->pre_result.action
    err,                \* task->err: "none" or the error kind
    checkpoint,         \* task->checkpoint: "null" or "set"
    pending,            \* number of events pending in the session task->s
    pc,                 \* "idle" | "handler" | "tail" | "freed"
    st,                 \* the stage selected by the running rspamd_task_process
    stages,             \* the stages argument of the running rspamd_task_process
    caller,             \* who made the running top-level call: "none" | "direct" | "fin"
    ret,                \* result of the last top-level rspamd_task_process that returned
    tick,               \* flips at every top-level rspamd_task_process call
    dispatched,         \* per stage: how many times the switch entered its case
    suspended,          \* per stage: how many times it returned with events pending
    susp,               \* stage and mask of the last call, if it returned suspended
    entry,              \* the last top-level call: the branch taken at entry, and the
                        \* stage left suspended by the call before it, if the mask is
                        \* the same
    nested,             \* calls made by the running handler: [n, ret]
    events,             \* total number of events the handlers have registered
    replies,            \* replies written by rspamd_task_reply: [callback, protocol]
    hres,               \* the stage last left by the switch and what its handler
                        \* reported: [st, ok]
    calls,              \* per external routine: how often the switch has invoked it
    fin_ret,            \* result of the last rspamd_task_fin: "none" | "true" | "false"
    timed_out,          \* the task's timeout timer has fired
    loaded,             \* rspamd_task_load_message: "no" | "ok" | "fail"
    load_in,            \* what the load was called with (an element of LoadInputs)
    control,            \* the control chunk: "none" | "handled" | "failed"
    msg,                \* task->msg: [src, begin, len]
    cfg_refs,           \* references the task holds on its configuration
    fds,                \* descriptors of the load: [opened, closed]
    maps,               \* regions of the load: [mapped, unmapped, size]
    dtors,              \* destructors registered on task->task_pool, in order
    dtor_log,           \* destructors run so far, in the order they ran
    pool,               \* task->task_pool: "alive" | "deleted"
    cfg,                \* task->cfg is set
    fin_callback,       \* task->fin_callback is set
    logged,             \* rspamd_task_write_log has been called
    sel,                \* stage selector applied to arbitrary inputs: [done, req, st, ps]
    deliver_to,         \* task->deliver_to: {} for NULL, else {the string}
    rcpt_envelope,      \* task->rcpt_envelope: [present, addrs, oob]
    rcpt_mime,          \* task->rcpt_mime: [present, boxes]
    recipient,          \* the pool variable "recipient": 0 for none, else a pointer
    heap,               \* the strings rspamd_task_cache_principal_recipient allocated;
                        \* a pointer is an index into heap
    principal,          \* the rspamd_task_get_principal_recipient calls so far:
                        \* [n, last, first, fresh, crashed]
    from_envelope,      \* task->from_envelope is set
    addr_refs,          \* reference counts of the envelope addresses: [from, rcpt],
                        \* rcpt element by element as in rcpt_envelope
    log,                \* a log routine applied to arbitrary inputs:
                        \* [kind, in, done, out]
    repl                \* the loop of rspamadm_lua_run_repl: [is_multiline, tb, pc]
                        \* and what it has done: [input, block, exec, dot, history, n]

task_vars == <<flags, processed_stages, pre_result, err, checkpoint, msg>>

ctl_vars == <<pc, st, stages, caller>>

obs_vars == <<ret, tick, dispatched, suspended, susp, entry, nested, events,
              replies, fin_ret, timed_out, hres, calls>>

res_vars == <<loaded, load_in, control, cfg_refs, fds, maps, dtors, dtor_log, pool,
              cfg, fin_callback, logged>>

rcpt_vars == <<deliver_to, rcpt_envelope, rcpt_mime, recipient, heap, principal,
               from_envelope, addr_refs>>

vars == <<task_vars, pending, ctl_vars, obs_vars, res_vars, sel, rcpt_vars, log, repl>>

----------------------------------------------------------------------------
(* Bounds *)

MaxEvents == 1      \* events the handlers of one task register in total
MaxNested == 1      \* nested rspamd_task_process calls one handler makes
MaxSize == 2        \* largest size of a file, a segment or an inline buffer
MaxSuspend == 2     \* suspended returns of one task before no more calls are made
MaxLogSyms == 2     \* SYMBOLS items in the configured log format
MaxReqBits == 2     \* stages in a requested mask given to the stage selector alone
MaxRcpt == 1        \* addresses in rcpt_envelope and in rcpt_mime
MaxRcptCalls == 3   \* rspamd_task_get_principal_recipient calls on one task
MaxSyms == 3        \* symbols in the default metric result
MaxAddrs == 9       \* addresses in a list that is rendered
MaxItems == 2       \* items in the configured log format
MaxEnvelope == 2    \* envelope recipients the protocol layer adds to one task
MaxHolders == 2     \* holders of a reference to one envelope address, the task included
MaxTemplate == 3    \* characters of the data of a variable item
MaxLines == 4       \* lines the REPL reads before its input ends

----------------------------------------------------------------------------
(* Stage bits (enum rspamd_task_stage) *)

RSPAMD_TASK_STAGE_READ_MESSAGE == 1
RSPAMD_TASK_STAGE_PRE_FILTERS == 2
RSPAMD_TASK_STAGE_FILTERS == 4
RSPAMD_TASK_STAGE_CLASSIFIERS_PRE == 8
RSPAMD_TASK_STAGE_CLASSIFIERS == 16
RSPAMD_TASK_STAGE_CLASSIFIERS_POST == 32
RSPAMD_TASK_STAGE_COMPOSITES == 64
RSPAMD_TASK_STAGE_POST_FILTERS == 128
RSPAMD_TASK_STAGE_LEARN_PRE == 256
RSPAMD_TASK_STAGE_LEARN == 512
RSPAMD_TASK_STAGE_LEARN_POST == 1024
RSPAMD_TASK_STAGE_DONE == 2048

StageBits == {RSPAMD_TASK_STAGE_READ_MESSAGE, RSPAMD_TASK_STAGE_PRE_FILTERS,
              RSPAMD_TASK_STAGE_FILTERS, RSPAMD_TASK_STAGE_CLASSIFIERS_PRE,
              RSPAMD_TASK_STAGE_CLASSIFIERS, RSPAMD_TASK_STAGE_CLASSIFIERS_POST,
              RSPAMD_TASK_STAGE_COMPOSITES, RSPAMD_TASK_STAGE_POST_FILTERS,
              RSPAMD_TASK_STAGE_LEARN_PRE, RSPAMD_TASK_STAGE_LEARN,
              RSPAMD_TASK_STAGE_LEARN_POST, RSPAMD_TASK_STAGE_DONE}

RECURSIVE BitSum(_)
BitSum(S) == IF S = {} THEN 0
             ELSE LET b == CHOOSE x \in S : TRUE IN b + BitSum(S \ {b})

RSPAMD_TASK_PROCESS_ALL == BitSum(StageBits)

METRIC_ACTION_REJECT == "reject"
METRIC_ACTION_MAX == "max"

(* x & b # 0 for a single bit b *)
BitAnd(x, b) == (x \div b) % 2 = 1

(* x | b for a single bit b *)
BitOr(x, b) == IF BitAnd(x, b) THEN x ELSE x + b

(* the set of stage bits that are set in x *)
Bits(x) == {b \in StageBits : BitAnd(x, b)}

RSPAMD_TASK_IS_PROCESSED(ps) == BitAnd(ps, RSPAMD_TASK_STAGE_DONE)

----------------------------------------------------------------------------
(* rspamd_task_select_processing_stage *)

(* for (st = 1; mask != 1; st ++) mask >>= 1 *)
RECURSIVE ShiftCount(_, _)
ShiftCount(mask, n) == IF mask = 1 THEN n ELSE ShiftCount(mask \div 2, n + 1)

(* Variant: the skipped stages are not marked as done *)
Select_nomark(ps, stgs) ==
    LET n == IF ps = 0 THEN 0 ELSE ShiftCount(ps, 1)
        c == {b \in StageBits : /\ b >= 2 ^ n /\ b < RSPAMD_TASK_STAGE_DONE
                                 /\ BitAnd(stgs, b)}
    IN  [st |-> IF c = {} THEN RSPAMD_TASK_STAGE_DONE
                ELSE CHOOSE b \in c : \A x \in c : b <= x,
         ps |-> ps]

(* Variant: the first requested stage that is not done yet, wherever it is *)
Select_lowest_requested(ps, stgs) ==
    LET c == {b \in StageBits : /\ b < RSPAMD_TASK_STAGE_DONE
                                 /\ BitAnd(stgs, b) /\ ~BitAnd(ps, b)}
    IN  [st |-> IF c = {} THEN RSPAMD_TASK_STAGE_DONE
                ELSE CHOOSE b \in c : \A x \in c : b <= x,
         ps |-> ps]

(* The selected stage and the new task->processed_stages *)
RECURSIVE rspamd_task_select_processing_stage(_, _)
rspamd_task_select_processing_stage(ps, stgs) ==
    LET n == IF ps = 0 THEN 0 ELSE ShiftCount(ps, 1)
        s == 2 ^ n
    IN  IF BitAnd(stgs, s)
        THEN [st |-> s, ps |-> ps]
        ELSE IF s < RSPAMD_TASK_STAGE_DONE
             THEN rspamd_task_select_processing_stage(BitOr(ps, s), stgs)
             ELSE [st |-> RSPAMD_TASK_STAGE_DONE, ps |-> ps]

----------------------------------------------------------------------------
(* rspamd_task_process, in the pieces of its body *)

ClassifierStages == {RSPAMD_TASK_STAGE_CLASSIFIERS_PRE, RSPAMD_TASK_STAGE_CLASSIFIERS,
                     RSPAMD_TASK_STAGE_CLASSIFIERS_POST}

LearnStages == {RSPAMD_TASK_STAGE_LEARN_PRE, RSPAMD_TASK_STAGE_LEARN,
                RSPAMD_TASK_STAGE_LEARN_POST}

RSPAMD_TASK_IS_SKIPPED(fl) == "SKIP" \in fl

RSPAMD_TASK_IS_EMPTY(fl) == "EMPTY" \in fl

(* Variant: no guard against nested calls *)
ProcessEntry_noguard(fl, ps, pre) ==
    IF RSPAMD_TASK_IS_PROCESSED(ps) THEN "processed"
    ELSE IF pre # METRIC_ACTION_MAX THEN "pre_result"
    ELSE "dispatch"

(* Variant: a forced verdict does not stop the pipeline *)
ProcessEntry_nopre(fl, ps, pre) ==
    IF "PROCESSING" \in fl THEN "nested"
    ELSE IF RSPAMD_TASK_IS_PROCESSED(ps) THEN "processed"
    ELSE "dispatch"

(* Variant: a processed task is processed again *)
ProcessEntry_noprocessed(fl, ps, pre) ==
    IF "PROCESSING" \in fl THEN "nested"
    ELSE IF pre # METRIC_ACTION_MAX THEN "pre_result"
    ELSE "dispatch"

(* Variant: a forced verdict is honoured only before the first stage is done *)
ProcessEntry_prefirst(fl, ps, pre) ==
    IF "PROCESSING" \in fl THEN "nested"
    ELSE IF RSPAMD_TASK_IS_PROCESSED(ps) THEN "processed"
    ELSE IF pre # METRIC_ACTION_MAX /\ ps = 0 THEN "pre_result"
    ELSE "dispatch"

(* The checks at entry: which way the call goes *)
ProcessEntry(fl, ps, pre) ==
    IF "PROCESSING" \in fl THEN "nested"
    ELSE IF RSPAMD_TASK_IS_PROCESSED(ps) THEN "processed"
    ELSE IF pre # METRIC_ACTION_MAX THEN "pre_result"
    ELSE "dispatch"

(* Task state after the entry checks, the flag and the stage selection *)
ProcessEnter(fl, ps, pre, stgs) ==
    LET kind == ProcessEntry(fl, ps, pre)
        s    == rspamd_task_select_processing_stage(ps, stgs)
    IN  CASE kind = "nested"     -> [kind |-> kind, flags |-> fl, ps |-> ps, st |-> 0]
          [] kind = "processed"  -> [kind |-> kind, flags |-> fl, ps |-> ps, st |-> 0]
          [] kind = "pre_result" -> [kind |-> kind, flags |-> fl,
                                     ps |-> BitOr(ps, RSPAMD_TASK_STAGE_DONE), st |-> 0]
          [] OTHER               -> [kind |-> kind, flags |-> fl \cup {"PROCESSING"},
                                     ps |-> s.ps, st |-> s.st]

(* Does the case of stage s call out to the external handler? *)
HandlerRuns(s, fl, e) ==
    \/ s \in {RSPAMD_TASK_STAGE_READ_MESSAGE, RSPAMD_TASK_STAGE_PRE_FILTERS,
              RSPAMD_TASK_STAGE_FILTERS, RSPAMD_TASK_STAGE_COMPOSITES,
              RSPAMD_TASK_STAGE_POST_FILTERS}
    \/ s \in ClassifierStages /\ ~RSPAMD_TASK_IS_EMPTY(fl)
    \/ s \in LearnStages /\ fl \cap {"LEARN_SPAM", "LEARN_HAM"} # {} /\ e = "none"

(* The external routines the switch of rspamd_task_process calls *)
Routines ==
    {"rspamd_message_parse", "rspamd_lua_call_pre_filters", "rspamd_process_filters",
     "rspamd_stat_classify", "rspamd_make_composites", "rspamd_lua_call_post_filters",
     "rspamd_stat_check_autolearn", "rspamd_stat_learn"}

(* The invocation counts c after each routine of X has been invoked once more *)
Invoke(c, X) == [f \in Routines |-> IF f \in X THEN c[f] + 1 ELSE c[f]]

(* The external routine the case of stage s invokes when it is entered *)
ExternalCall(s, fl, e) ==
    CASE s = RSPAMD_TASK_STAGE_READ_MESSAGE -> {"rspamd_message_parse"}
      [] s = RSPAMD_TASK_STAGE_PRE_FILTERS -> {"rspamd_lua_call_pre_filters"}
      [] s = RSPAMD_TASK_STAGE_FILTERS -> {"rspamd_process_filters"}
      [] s \in ClassifierStages ->
            IF ~RSPAMD_TASK_IS_EMPTY(fl) THEN {"rspamd_stat_classify"} ELSE {}
      [] s = RSPAMD_TASK_STAGE_COMPOSITES -> {"rspamd_make_composites"}
      [] s = RSPAMD_TASK_STAGE_POST_FILTERS -> {"rspamd_lua_call_post_filters"}
      [] s \in LearnStages ->
            IF fl \cap {"LEARN_SPAM", "LEARN_HAM"} # {} /\ e = "none"
            THEN {"rspamd_stat_learn"} ELSE {}
      [] OTHER -> {}

(* The autolearn check that follows the post-filters *)
AutolearnCall(s, fl) ==
    IF /\ s = RSPAMD_TASK_STAGE_POST_FILTERS
       /\ "LEARN_AUTO" \in fl /\ ~RSPAMD_TASK_IS_EMPTY(fl)
    THEN {"rspamd_stat_check_autolearn"} ELSE {}

(* Variant: the result of the parser and of the rules engine is not read *)
StageSwitch_nofail(s, fl, ps, e, ok) ==
    CASE s \in LearnStages ->
            IF HandlerRuns(s, fl, e) /\ ~ok
            THEN [ret |-> TRUE,
                  ps  |-> BitOr(ps, RSPAMD_TASK_STAGE_DONE),
                  err |-> IF "LEARN_AUTO" \in fl THEN e ELSE "stat_error"]
            ELSE [ret |-> TRUE, ps |-> ps, err |-> e]
      [] s = RSPAMD_TASK_STAGE_DONE ->
            [ret |-> TRUE, ps |-> BitOr(ps, RSPAMD_TASK_STAGE_DONE), err |-> e]
      [] OTHER ->
            [ret |-> TRUE, ps |-> ps, err |-> e]

(* Variant: the error of the learner is stored also when learning is automatic *)
StageSwitch_learn_err(s, fl, ps, e, ok) ==
    CASE s \in {RSPAMD_TASK_STAGE_READ_MESSAGE, RSPAMD_TASK_STAGE_FILTERS} ->
            [ret |-> ok, ps |-> ps, err |-> e]
      [] s \in LearnStages ->
            IF HandlerRuns(s, fl, e) /\ ~ok
            THEN [ret |-> TRUE,
                  ps  |-> BitOr(ps, RSPAMD_TASK_STAGE_DONE),
                  err |-> "stat_error"]
            ELSE [ret |-> TRUE, ps |-> ps, err |-> e]
      [] s = RSPAMD_TASK_STAGE_DONE ->
            [ret |-> TRUE, ps |-> BitOr(ps, RSPAMD_TASK_STAGE_DONE), err |-> e]
      [] OTHER ->
            [ret |-> TRUE, ps |-> ps, err |-> e]

(* Variant: an error of the classifier fails the call *)
StageSwitch_classify_fatal(s, fl, ps, e, ok) ==
    CASE s \in {RSPAMD_TASK_STAGE_READ_MESSAGE, RSPAMD_TASK_STAGE_FILTERS}
                \cup ClassifierStages ->
            [ret |-> ok, ps |-> ps, err |-> e]
      [] s \in LearnStages ->
            IF HandlerRuns(s, fl, e) /\ ~ok
            THEN [ret |-> TRUE,
                  ps  |-> BitOr(ps, RSPAMD_TASK_STAGE_DONE),
                  err |-> IF "LEARN_AUTO" \in fl THEN e ELSE "stat_error"]
            ELSE [ret |-> TRUE, ps |-> ps, err |-> e]
      [] s = RSPAMD_TASK_STAGE_DONE ->
            [ret |-> TRUE, ps |-> BitOr(ps, RSPAMD_TASK_STAGE_DONE), err |-> e]
      [] OTHER ->
            [ret |-> TRUE, ps |-> ps, err |-> e]

(* The switch over the selected stage; ok is what the external handler returned *)
StageSwitch(s, fl, ps, e, ok) ==
    CASE s \in {RSPAMD_TASK_STAGE_READ_MESSAGE, RSPAMD_TASK_STAGE_FILTERS} ->
            [ret |-> ok, ps |-> ps, err |-> e]
      [] s \in LearnStages ->
            IF HandlerRuns(s, fl, e) /\ ~ok
            THEN [ret |-> TRUE,
                  ps  |-> BitOr(ps, RSPAMD_TASK_STAGE_DONE),
                  err |-> IF "LEARN_AUTO" \in fl THEN e ELSE "stat_error"]
            ELSE [ret |-> TRUE, ps |-> ps, err |-> e]
      [] s = RSPAMD_TASK_STAGE_DONE ->
            [ret |-> TRUE, ps |-> BitOr(ps, RSPAMD_TASK_STAGE_DONE), err |-> e]
      [] OTHER ->
            [ret |-> TRUE, ps |-> ps, err |-> e]

(* Variants of the exit: the completed stage is stored with = instead of |=, *)
(* a suspended stage is marked as done, a completed stage is not marked, the *)
(* skipped flag is not looked at, the checkpoint is reset although events   *)
(* are pending                                                               *)
ProcessExit_variant(s, fl, ps, r, pend, v) ==
    LET ps1 == IF RSPAMD_TASK_IS_SKIPPED(fl) /\ v # "noskip"
               THEN BitOr(ps, RSPAMD_TASK_STAGE_DONE) ELSE ps
        fl1 == fl \ {"PROCESSING"}
    IN  IF ~r \/ RSPAMD_TASK_IS_PROCESSED(ps1)
        THEN [how |-> "return", ret |-> r, flags |-> fl1, clear |-> FALSE,
              ps |-> IF ~r THEN BitOr(ps1, RSPAMD_TASK_STAGE_DONE) ELSE ps1]
        ELSE IF pend # 0
             THEN [how |-> "suspend", ret |-> r, flags |-> fl1,
                   clear |-> v = "clearsuspended",
                   ps |-> IF v = "marksuspended" THEN BitOr(ps1, s) ELSE ps1]
             ELSE [how |-> "tail", ret |-> r, flags |-> fl1, clear |-> TRUE,
                   ps |-> CASE v = "assign" -> s
                            [] v = "nomark" -> ps1
                            [] OTHER -> BitOr(ps1, s)]

ProcessExit_assign(s, fl, ps, r, pend) ==
    ProcessExit_variant(s, fl, ps, r, pend, "assign")

ProcessExit_marksuspended(s, fl, ps, r, pend) ==
    ProcessExit_variant(s, fl, ps, r, pend, "marksuspended")

ProcessExit_nomark(s, fl, ps, r, pend) ==
    ProcessExit_variant(s, fl, ps, r, pend, "nomark")

ProcessExit_clearsuspended(s, fl, ps, r, pend) ==
    ProcessExit_variant(s, fl, ps, r, pend, "clearsuspended")

ProcessExit_noskip(s, fl, ps, r, pend) ==
    ProcessExit_variant(s, fl, ps, r, pend, "noskip")

(* Variant: the call returns after every stage instead of going on *)
ProcessExit_yield(s, fl, ps, r, pend) ==
    LET x == ProcessExit_variant(s, fl, ps, r, pend, "nomark")
    IN  IF x.how = "tail" THEN [x EXCEPT !.how = "return"] ELSE x

(* After the switch: skipped flag, clearing of the processing flag, the result *)
(* and the decision between return, suspension and the tail call; clear says  *)
(* whether task->checkpoint is reset                                          *)
ProcessExit(s, fl, ps, r, pend) ==
    LET ps1 == IF RSPAMD_TASK_IS_SKIPPED(fl)
               THEN BitOr(ps, RSPAMD_TASK_STAGE_DONE) ELSE ps
        fl1 == fl \ {"PROCESSING"}
    IN  IF ~r \/ RSPAMD_TASK_IS_PROCESSED(ps1)
        THEN [how |-> "return", ret |-> r, flags |-> fl1, clear |-> FALSE,
              ps |-> IF ~r THEN BitOr(ps1, RSPAMD_TASK_STAGE_DONE) ELSE ps1]
        ELSE IF pend # 0
             THEN [how |-> "suspend", ret |-> r, flags |-> fl1, clear |-> FALSE,
                   ps |-> ps1]
             ELSE [how |-> "tail", ret |-> r, flags |-> fl1, clear |-> TRUE,
                   ps |-> BitOr(ps1, s)]

----------------------------------------------------------------------------
(* rspamd_task_load_message *)

NoMsg == [src |-> "none", begin |-> 0, len |-> 0]

(* Header values are decimal digit strings *)
NumToks == {<<d>> : d \in 0 .. MaxSize + 1} \cup {<<1, 0>>}

(* rspamd_strtoul: the value of a string of decimal digits *)
RECURSIVE rspamd_strtoul(_)
rspamd_strtoul(tok) ==
    IF tok = <<>> THEN 0
    ELSE 10 * rspamd_strtoul(SubSeq(tok, 1, Len(tok) - 1)) + tok[Len(tok)]

(* What the caller and the operating system give one call of the load:       *)
(*   hdrs         which of the request headers shm, file, path are present    *)
(*   has_off, off, has_length, length   the shm-offset and shm-length headers *)
(*   open_ok, stat_ok, mmap_ok   outcome of shm_open/open, fstat/stat, mmap   *)
(*                of the object that the header of highest precedence names   *)
(*   size         st.st_size of that file or segment                          *)
(*   len          length of the inline buffer (start, len)                    *)
(*   has_control, message_len    set by rspamd_protocol_handle_headers        *)
(*   ucl_ok       does ucl_parser_add_chunk accept the control chunk          *)
LoadInputs ==
    {in \in [hdrs : SUBSET {"shm", "file", "path"},
             has_off : BOOLEAN, off : NumToks,
             has_length : BOOLEAN, length : NumToks,
             open_ok : BOOLEAN, stat_ok : BOOLEAN, mmap_ok : BOOLEAN,
             size : 0 .. MaxSize,
             len : 0 .. MaxSize,
             has_control : BOOLEAN,
             message_len : 0 .. MaxSize + 1,
             ucl_ok : BOOLEAN] :
        \* mmap of an empty object fails (EINVAL)
        /\ (in.hdrs # {} /\ in.size = 0) => ~in.mmap_ok
        \* inputs the chosen branch never reads are fixed
        /\ in.hdrs = {} => /\ in.open_ok /\ in.stat_ok /\ in.mmap_ok /\ in.size = 0
        /\ "shm" \notin in.hdrs => ~in.has_off /\ ~in.has_length
        /\ ~in.has_off => in.off = <<0>>
        /\ ~in.has_length => in.length = <<0>>
        /\ ~in.has_control => in.message_len = 0
        /\ ~(in.hdrs = {} /\ in.has_control /\ in.message_len < in.len) => in.ucl_ok
        /\ ~in.mmap_ok => ~in.has_off /\ ~in.has_length
        /\ in.hdrs # {} => in.len \in {0, MaxSize} /\ in.message_len <= 1
        /\ ~in.open_ok => in.stat_ok /\ ~in.mmap_ok
        /\ ~in.stat_ok => ~in.mmap_ok}

(* No load yet *)
NoReq ==
    [hdrs |-> {}, has_off |-> FALSE, off |-> <<0>>, has_length |-> FALSE,
     length |-> <<0>>, open_ok |-> TRUE, stat_ok |-> TRUE, mmap_ok |-> TRUE,
     size |-> 0, len |-> 0, has_control |-> FALSE, message_len |-> 0,
     ucl_ok |-> TRUE]

(* The shared-memory branch; m is task->msg before the call *)
LoadShm(fl, m, in) ==
    LET offset     == IF ~in.has_off THEN 0 ELSE rspamd_strtoul(in.off)
        shmem_size == IF ~in.has_length THEN in.size
                      ELSE rspamd_strtoul(in.length)
        none       == [mapped |-> 0, unmapped |-> 0, size |-> 0]
    IN  IF ~in.open_ok
        THEN [ok |-> FALSE, msg |-> m, flags |-> fl, err |-> "protocol_error",
              fds |-> [opened |-> 0, closed |-> 0], maps |-> none, dtors |-> <<>>,
              control |-> "none"]
        ELSE IF ~in.stat_ok
        THEN [ok |-> FALSE, msg |-> m, flags |-> fl, err |-> "protocol_error",
              fds |-> [opened |-> 1, closed |-> 1], maps |-> none, dtors |-> <<>>,
              control |-> "none"]
        ELSE IF ~in.mmap_ok
        THEN [ok |-> FALSE, msg |-> m, flags |-> fl, err |-> "protocol_error",
              fds |-> [opened |-> 1, closed |-> 1], maps |-> none, dtors |-> <<>>,
              control |-> "none"]
        ELSE IF in.has_off /\ offset > in.size
        THEN [ok |-> FALSE, msg |-> m, flags |-> fl, err |-> "none",
              fds |-> [opened |-> 1, closed |-> 1],
              maps |-> [mapped |-> 1, unmapped |-> 1, size |-> in.size],
              dtors |-> <<>>, control |-> "none"]
        ELSE IF in.has_length /\ shmem_size > in.size
        THEN [ok |-> FALSE, msg |-> m, flags |-> fl, err |-> "none",
              fds |-> [opened |-> 1, closed |-> 1],
              maps |-> [mapped |-> 1, unmapped |-> 1, size |-> in.size],
              dtors |-> <<>>, control |-> "none"]
        ELSE [ok |-> TRUE,
              msg |-> [src |-> "shm", begin |-> offset, len |-> shmem_size],
              flags |-> fl \cup {"FILE"}, err |-> "none",
              fds |-> [opened |-> 1, closed |-> 1],
              maps |-> [mapped |-> 1, unmapped |-> 0, size |-> in.size],
              dtors |-> <<"rspamd_task_unmapper">>, control |-> "none"]

(* The file / path branch: the file header if there is one, else the path header *)
LoadFile(fl, m, in) ==
    LET none == [mapped |-> 0, unmapped |-> 0, size |-> 0]
        tok  == IF "file" \in in.hdrs THEN "file" ELSE "path"
    IN  IF ~in.stat_ok
        THEN [ok |-> FALSE, msg |-> m, flags |-> fl, err |-> "protocol_error",
              fds |-> [opened |-> 0, closed |-> 0], maps |-> none, dtors |-> <<>>,
              control |-> "none"]
        ELSE IF ~in.open_ok
        THEN [ok |-> FALSE, msg |-> m, flags |-> fl, err |-> "protocol_error",
              fds |-> [opened |-> 0, closed |-> 0], maps |-> none, dtors |-> <<>>,
              control |-> "none"]
        ELSE IF ~in.mmap_ok
        THEN [ok |-> FALSE, msg |-> m, flags |-> fl, err |-> "protocol_error",
              fds |-> [opened |-> 1, closed |-> 1], maps |-> none, dtors |-> <<>>,
              control |-> "none"]
        ELSE [ok |-> TRUE,
              msg |-> [src |-> tok, begin |-> 0, len |-> in.size],
              flags |-> fl \cup {"FILE"}, err |-> "none",
              fds |-> [opened |-> 1, closed |-> 1],
              maps |-> [mapped |-> 1, unmapped |-> 0, size |-> in.size],
              dtors |-> <<"rspamd_task_unmapper">>, control |-> "none"]

(* Plain data, with the control chunk *)
LoadInline(fl, m, in) ==
    LET fl1  == IF in.len = 0 THEN fl \cup {"EMPTY"} ELSE fl
        none == [mapped |-> 0, unmapped |-> 0, size |-> 0]
        nofd == [opened |-> 0, closed |-> 0]
        control_len == in.len - in.message_len
    IN  IF "HAS_CONTROL" \in fl1
        THEN IF in.len < in.message_len
             THEN [ok |-> FALSE, msg |-> [src |-> "inline", begin |-> 0, len |-> in.len],
                   flags |-> fl1, err |-> "protocol_error",
                   fds |-> nofd, maps |-> none, dtors |-> <<>>, control |-> "none"]
             ELSE IF control_len > 0
             THEN [ok |-> TRUE,
                   msg |-> [src |-> "inline", begin |-> control_len,
                            len |-> in.len - control_len],
                   flags |-> fl1, err |-> "none",
                   fds |-> nofd, maps |-> none, dtors |-> <<>>,
                   control |-> IF in.ucl_ok THEN "handled" ELSE "failed"]
             ELSE [ok |-> TRUE, msg |-> [src |-> "inline", begin |-> 0, len |-> in.len],
                   flags |-> fl1, err |-> "none",
                   fds |-> nofd, maps |-> none, dtors |-> <<>>, control |-> "none"]
        ELSE [ok |-> TRUE, msg |-> [src |-> "inline", begin |-> 0, len |-> in.len],
              flags |-> fl1, err |-> "none",
              fds |-> nofd, maps |-> none, dtors |-> <<>>, control |-> "none"]

(* The flags as rspamd_protocol_handle_headers leaves them for the request *)
HandleHeaders(fl, in) == IF in.has_control THEN fl \cup {"HAS_CONTROL"} ELSE fl

(* Variant: the file header is looked up before the shm header *)
Load_file_first(fl, m, in) ==
    LET fl0 == HandleHeaders(fl, in)
    IN  IF in.hdrs \cap {"file", "path"} # {} THEN LoadFile(fl0, m, in)
        ELSE IF "shm" \in in.hdrs THEN LoadShm(fl0, m, in)
        ELSE LoadInline(fl0, m, in)

(* The whole load: the protocol layer sets the flags of the request first *)
rspamd_task_load_message(fl, m, in) ==
    LET fl0 == HandleHeaders(fl, in)
    IN  IF "shm" \in in.hdrs THEN LoadShm(fl0, m, in)
        ELSE IF in.hdrs \cap {"file", "path"} # {} THEN LoadFile(fl0, m, in)
        ELSE LoadInline(fl0, m, in)

(* Variant: the destructor does not unmap *)
rspamd_task_unmapper_nop(m) == m

(* rspamd_task_unmapper: one munmap of the registered region *)
rspamd_task_unmapper(m) == [m EXCEPT !.unmapped = @ + 1]

----------------------------------------------------------------------------
(* The memory pool of the task *)

RECURSIVE Reverse(_)
Reverse(q) == IF q = <<>> THEN <<>> ELSE Append(Reverse(Tail(q)), Head(q))

(* rspamd_mempool_delete: the destructors in the order in which they are run *)
rspamd_mempool_delete(ds) == Reverse(ds)

(* The regions after the destructors of q have run, in the order of q *)
RECURSIVE RunDestructors(_, _)
RunDestructors(q, m) ==
    IF q = <<>> THEN m
    ELSE RunDestructors(Tail(q), IF Head(q) = "rspamd_task_unmapper"
                                 THEN rspamd_task_unmapper(m) ELSE m)

(* The destructors rspamd_task_new registers, in order *)
rspamd_task_new_destructors ==
    <<"results", "request_headers", "reply_headers", "raw_headers", "emails",
      "urls", "parts", "text_parts", "received">>

(* The destructors one rspamd_task_write_log registers: one string buffer per *)
(* SYMBOLS item that is rendered                                              *)
RECURSIVE LogDestructors(_)
LogDestructors(n) ==
    IF n = 0 THEN <<>> ELSE Append(LogDestructors(n - 1), "rspamd_fstring_free")

(* rspamd_email_address_unref on an address with n references *)
rspamd_email_address_unref(n) == n - 1

(* Variants of rspamd_task_free: the pool is not deleted; only the first *)
(* envelope recipient is released                                         *)
rspamd_task_free_variant(c, refs, ds, m, env, from, ar, v) ==
    LET order == rspamd_mempool_delete(ds)
        last  == IF v = "first" /\ Len(env.addrs) > 0 THEN 1 ELSE Len(env.addrs)
    IN  [addr_refs |->
             [rcpt |-> IF env.present
                       THEN [i \in 1 .. Len(env.addrs) |->
                                IF i <= last THEN rspamd_email_address_unref(ar.rcpt[i])
                                ELSE ar.rcpt[i]]
                       ELSE ar.rcpt,
              from |-> IF from THEN rspamd_email_address_unref(ar.from) ELSE ar.from],
         cfg_refs |-> IF c THEN refs - 1 ELSE refs,
         dtor_log |-> IF v = "nopool" THEN <<>> ELSE order,
         maps     |-> IF v = "nopool" THEN m ELSE RunDestructors(order, m),
         pool     |-> IF v = "nopool" THEN "alive" ELSE "deleted"]

rspamd_task_free_nopool(c, refs, ds, m, env, from, ar) ==
    rspamd_task_free_variant(c, refs, ds, m, env, from, ar, "nopool")

rspamd_task_free_first(c, refs, ds, m, env, from, ar) ==
    rspamd_task_free_variant(c, refs, ds, m, env, from, ar, "first")

(* rspamd_task_free: the envelope addresses are released, then the           *)
(* configuration; the pool is deleted last                                   *)
rspamd_task_free(c, refs, ds, m, env, from, ar) ==
    LET order == rspamd_mempool_delete(ds)
    IN  [addr_refs |->
             [rcpt |-> IF env.present
                       THEN [i \in 1 .. Len(env.addrs) |->
                                rspamd_email_address_unref(ar.rcpt[i])]
                       ELSE ar.rcpt,
              from |-> IF from THEN rspamd_email_address_unref(ar.from) ELSE ar.from],
         cfg_refs |-> IF c THEN refs - 1 ELSE refs,
         dtor_log |-> order,
         maps     |-> RunDestructors(order, m),
         pool     |-> "deleted"]

----------------------------------------------------------------------------
(* The principal recipient *)

(* Addresses are strings over a small alphabet with one upper-case letter *)
RcptStrs == {<<"A">>, <<"b">>, <<"b", "A">>}

(* An optional string: {} for NULL *)
OptStrs == {{}} \cup {{x} : x \in RcptStrs}

RECURSIVE SeqsUpTo(_, _)
SeqsUpTo(S, n) ==
    IF n = 0 THEN {<<>>}
    ELSE LET shorter == SeqsUpTo(S, n - 1)
         IN  shorter \cup {Append(q, x) : q \in {r \in shorter : Len(r) = n - 1}, x \in S}

(* What a read of element 0 of an empty GPtrArray finds: pdata is NULL, or  *)
(* the slot holds whatever address was left there                            *)
OobReads == [crash : {TRUE}, addr : {{}}] \cup [crash : {FALSE}, addr : OptStrs]

NoOob == [crash |-> TRUE, addr |-> {}]

NoEnvelope == [present |-> FALSE, addrs |-> <<>>, oob |-> NoOob]

(* rcpt_envelope: NULL or an array of addresses, each with addr set or NULL *)
Envelopes ==
    {NoEnvelope}
      \cup {[present |-> TRUE, addrs |-> a, oob |-> o] :
               a \in SeqsUpTo(OptStrs, MaxRcpt) \ {<<>>}, o \in {NoOob}}
      \cup {[present |-> TRUE, addrs |-> <<>>, oob |-> o] : o \in OobReads}

NoMime == [present |-> FALSE, boxes |-> <<>>]

(* rcpt_mime: NULL or a list whose elements are mailboxes ({addr}) or groups ({}) *)
Mimes ==
    {NoMime} \cup {[present |-> TRUE, boxes |-> b] : b \in SeqsUpTo(OptStrs, MaxRcpt)}

(* No envelope address is referenced *)
NoAddrRefs == [from |-> 0, rcpt |-> <<>>]

NoCalls == [n |-> 0, last |-> 0, first |-> 0, fresh |-> FALSE, crashed |-> FALSE]

(* rspamd_str_lc on a string *)
rspamd_str_lc(str) == [i \in 1 .. Len(str) |-> IF str[i] = "A" THEN "a" ELSE str[i]]

(* Variant: the copy is not stored in the pool variable *)
Cache_nostore(rec, hp, rcpt) ==
    IF rcpt = {} THEN [ret |-> 0, recipient |-> rec, heap |-> hp]
    ELSE LET str == CHOOSE x \in rcpt : TRUE
         IN  [ret |-> Len(hp) + 1, recipient |-> rec,
              heap |-> Append(hp, rspamd_str_lc(str))]

(* rspamd_task_cache_principal_recipient: rcpt is {} for NULL *)
rspamd_task_cache_principal_recipient(rec, hp, rcpt) ==
    IF rcpt = {} THEN [ret |-> 0, recipient |-> rec, heap |-> hp]
    ELSE LET str == CHOOSE x \in rcpt : TRUE
         IN  [ret |-> Len(hp) + 1, recipient |-> Len(hp) + 1,
              heap |-> Append(hp, rspamd_str_lc(str))]

(* The first mailbox of rcpt_mime, {} if there is none *)
FirstMailbox(mime) ==
    IF mime.present /\ Len(mime.boxes) > 0 THEN mime.boxes[1] ELSE {}

(* rspamd_task_get_principal_recipient: the result, or a crash when element 0 *)
(* of an empty rcpt_envelope is read through a NULL pdata                     *)
rspamd_task_get_principal_recipient(rec, hp, dt, env, mime) ==
    LET keep(r) == [crash |-> FALSE, ret |-> r.ret, recipient |-> r.recipient,
                    heap |-> r.heap]
        frommime == keep(rspamd_task_cache_principal_recipient(rec, hp,
                                                               FirstMailbox(mime)))
    IN  IF rec # 0 THEN [crash |-> FALSE, ret |-> rec, recipient |-> rec, heap |-> hp]
        ELSE IF dt # {}
        THEN keep(rspamd_task_cache_principal_recipient(rec, hp, dt))
        ELSE IF env.present
        THEN IF Len(env.addrs) = 0 /\ env.oob.crash
             THEN [crash |-> TRUE, ret |-> 0, recipient |-> rec, heap |-> hp]
             ELSE LET addr == IF Len(env.addrs) = 0 THEN env.oob.addr
                              ELSE env.addrs[1]
                  IN  IF addr # {}
                      THEN keep(rspamd_task_cache_principal_recipient(rec, hp, addr))
                      ELSE frommime
        ELSE frommime

----------------------------------------------------------------------------
(* The log formatter: the SYMBOLS variable *)

NoLog == [kind |-> "none", in |-> <<>>, done |-> FALSE, out |-> <<>>]

max_log_elts == 7

(* A score is a decimal number: sign, millions and units of 0.0005 below a  *)
(* million, so that |score| = hi * 10^6 + lo * 0.0005                        *)
MkScore(neg, hi, lo) == [neg |-> neg, hi |-> hi, lo |-> lo]

ScoreVals ==
    {MkScore(FALSE, 0, 2000),    \*  1.0
     MkScore(FALSE, 0, 2001),    \*  1.0005
     MkScore(TRUE, 0, 6000),     \* -3.0
     MkScore(FALSE, 0, 6000),    \*  3.0
     MkScore(FALSE, 3, 0)}       \*  3000000.0

SymNames == {"A", "B", "C"}

(* strcmp on symbol names, as its sign *)
strcmp(a, b) ==
    LET rank == [n \in SymNames |-> CASE n = "A" -> 1 [] n = "B" -> 2 [] OTHER -> 3]
    IN  IF rank[a] < rank[b] THEN -1 ELSE IF rank[a] > rank[b] THEN 1 ELSE 0

(* What the conversion of a double outside the range of gint yields: the    *)
(* behaviour is undefined; a build gives the "integer indefinite" value     *)
(* INT_MIN (cvttsd2si) or saturates                                          *)
Conversions == {"indefinite", "saturate"}

(* (gint) of the double dh * 10^9 + dl / 2, as its sign *)
DoubleToGintSign(dh, dl, conv) ==
    LET sign(x) == IF x < 0 THEN -1 ELSE IF x > 0 THEN 1 ELSE 0
        \* the integer part, truncated toward zero, when dh = 0
        trunc == IF dl >= 0 THEN dl \div 2 ELSE -((-dl) \div 2)
        fits == \/ dh = 0
                \/ dh \in {1, 2} /\ dl \div 2 <= 2147483647 - dh * 1000000000
                \/ dh \in {-1, -2} /\ (-dl) \div 2 <= 2147483647 + dh * 1000000000
    IN  IF dh = 0 THEN sign(trunc)
        ELSE IF fits THEN sign(dh)
        ELSE IF conv = "indefinite" THEN -1
        ELSE sign(dh)

(* rspamd_task_compare_log_sym, as the sign of its result *)
rspamd_task_compare_log_sym(s1, s2, conv) ==
    IF s1.score.hi = s2.score.hi /\ s1.score.lo = s2.score.lo
    THEN strcmp(s1.name, s2.name)
    ELSE DoubleToGintSign(s2.score.hi - s1.score.hi, s2.score.lo - s1.score.lo, conv)

(* The orders of the elements of a set *)
Orders(S) ==
    {q \in [1 .. Cardinality(S) -> S] : \A i, j \in DOMAIN q : i # j => q[i] # q[j]}

(* g_ptr_array_sort: the arrays a comparison sort may leave, every element  *)
(* not after its successor as far as the comparison function tells           *)
g_ptr_array_sort(arr, conv) ==
    {q \in Orders({arr[i] : i \in DOMAIN arr}) :
        \A i \in 1 .. Len(q) - 1 : rspamd_task_compare_log_sym(q[i], q[i + 1], conv) <= 0}

(* A piece of rendered output: literal text, a name, or a number printed    *)
(* with two decimals (n is the number in hundredths)                         *)
Lit(str) == [t |-> "lit", s |-> str, n |-> 0]
Txt(str) == [t |-> "str", s |-> str, n |-> 0]
Num(neg, hundredths) == [t |-> "num", s |-> IF neg THEN "-" ELSE "", n |-> hundredths]

(* "%.2f" of a score: rounded to hundredths *)
Fmt2f(score) == Num(score.neg, score.hi * 100000000 + (score.lo + 10) \div 20)

RECURSIVE Concat(_)
Concat(seqs) == IF seqs = <<>> THEN <<>> ELSE Head(seqs) \o Concat(Tail(seqs))

(* The options of a symbol with RSPAMD_LOG_FLAG_SYMBOLS_PARAMS *)
RenderOptions(options) ==
    LET n == IF Len(options) > max_log_elts + 1 THEN max_log_elts + 1 ELSE Len(options)
    IN  <<Lit("{")>>
          \o Concat([j \in 1 .. n |->
                       <<Txt(options[j]), Lit(";")>>
                         \o (IF j - 1 >= max_log_elts THEN <<Lit("...;")>> ELSE <<>>)])
          \o <<Lit("}")>>

(* The loop of RSPAMD_LOG_SYMBOLS over the sorted symbols *)
RenderSymbolList(sorted, lf_flags) ==
    Concat([i \in 1 .. Len(sorted) |->
              (IF i = 1 THEN <<>> ELSE <<Lit(",")>>)
                \o <<Txt(sorted[i].name)>>
                \o (IF "SYMBOLS_SCORES" \in lf_flags
                    THEN <<Lit("("), Fmt2f(sorted[i].score), Lit(")")>> ELSE <<>>)
                \o (IF "SYMBOLS_PARAMS" \in lf_flags
                    THEN RenderOptions(sorted[i].options) ELSE <<>>)])

(* rspamd_task_log_metric_res for RSPAMD_LOG_SYMBOLS: the renderings it may *)
(* produce when the hash table is iterated in the order iter                 *)
RenderSymbols(iter, lf_flags, conv) ==
    {RenderSymbolList(q, lf_flags) : q \in g_ptr_array_sort(iter, conv)}

SymOptions == {<<>>, <<"o">>}

(* The symbol tables: at most MaxSyms symbols with different names; only    *)
(* the symbol with the least name carries options                            *)
SymTables ==
    UNION {{{[name |-> n, score |-> f[n],
              options |-> IF \A y \in N : strcmp(n, y) <= 0 THEN o ELSE <<>>] : n \in N} :
               f \in [N -> ScoreVals], o \in SymOptions} :
             N \in {M \in SUBSET SymNames : Cardinality(M) <= MaxSyms}}

IsHuge(score) == score.hi # 0

(* What RSPAMD_LOG_SYMBOLS is rendered from: the symbols in the order the    *)
(* hash table yields them, the flags of the format item, and the build       *)
SymbolInputs ==
    {[iter |-> q, lf_flags |-> f, conv |-> c] :
        q \in UNION {Orders(T) : T \in SymTables},
        f \in {{}, {"SYMBOLS_SCORES"}, {"SYMBOLS_SCORES", "SYMBOLS_PARAMS"}},
        c \in Conversions}

----------------------------------------------------------------------------
(* The log formatter: address lists, variables and the log record *)

(* The i-th address of a list *)
Addr(i) == [t |-> "str", s |-> "addr", n |-> i]

(* Content templates of a format item: {} for NULL data *)
Templates == {{}, {<<Lit("<"), Lit("$"), Lit(">")>>}}

(* The loop of rspamd_task_log_write_var over the content c: p is the      *)
(* position it looks at and cc the start of the text not yet copied, both  *)
(* counted from 1; res is what has been appended                            *)
RECURSIVE WriteVarFrom(_, _, _, _, _)
WriteVarFrom(var, c, p, cc, res) ==
    IF p <= Len(c)
    THEN IF c[p] = Lit("$")
         THEN WriteVarFrom(var, c, p + 1, p + 1,
                           (IF p > cc THEN res \o SubSeq(c, cc, p - 1) ELSE res) \o var)
         ELSE WriteVarFrom(var, c, p + 1, cc, res)
    ELSE IF p > cc THEN res \o SubSeq(c, cc, p - 1) ELSE res

(* Variant: only the first $ of the content is replaced *)
WriteVar_first(var, content) ==
    IF content = {} THEN var
    ELSE LET c == CHOOSE x \in content : TRUE
             dollars == {i \in 1 .. Len(c) : c[i] = Lit("$")}
         IN  IF dollars = {} THEN c
             ELSE LET d == CHOOSE i \in dollars : \A j \in dollars : i <= j
                  IN  SubSeq(c, 1, d - 1) \o var \o SubSeq(c, d + 1, Len(c))

(* rspamd_task_log_write_var: what it appends to logbuf; content is {} for *)
(* NULL                                                                     *)
rspamd_task_log_write_var(var, content) ==
    IF content = {} THEN var
    ELSE WriteVarFrom(var, CHOOSE x \in content : TRUE, 1, 1, <<>>)

(* The loop of rspamd_task_write_addr_list and rspamd_task_write_ialist    *)
(* from index i (counted from 0) with varbuf so far; an element is {} when  *)
(* it has no address (addr->addr is NULL, or the element is not a mailbox)  *)
RECURSIVE WriteListFrom(_, _, _, _)
WriteListFrom(elts, lim, i, varbuf) ==
    IF i >= lim THEN varbuf
    ELSE LET elt == IF i + 1 <= Len(elts) THEN elts[i + 1] ELSE {}
             b1 == varbuf \o (IF elt # {} THEN <<CHOOSE x \in elt : TRUE>> ELSE <<>>)
             b2 == b1 \o (IF Len(b1) > 0 /\ i # lim - 1 THEN <<Lit(",")>> ELSE <<>>)
         IN  IF i >= max_log_elts THEN b2 \o <<Lit("...")>>
             ELSE WriteListFrom(elts, lim, i + 1, b2)

(* rspamd_task_write_addr_list: what it appends to logbuf *)
rspamd_task_write_addr_list(addrs, lim, data) ==
    LET varbuf == WriteListFrom(addrs, IF lim <= 0 THEN Len(addrs) ELSE lim, 0, <<>>)
    IN  IF Len(varbuf) > 0 THEN rspamd_task_log_write_var(varbuf, data) ELSE <<>>

(* rspamd_task_write_ialist: what it appends to logbuf *)
rspamd_task_write_ialist(ialist, lim, data) ==
    LET varbuf == WriteListFrom(ialist, IF lim <= 0 THEN Len(ialist) ELSE lim, 0, <<>>)
    IN  IF Len(varbuf) > 0 THEN rspamd_task_log_write_var(varbuf, data) ELSE <<>>

(* The lists of at most MaxAddrs elements: element i is address i or has    *)
(* no address                                                               *)
AddrLists ==
    UNION {[1 .. n -> BOOLEAN] : n \in 0 .. MaxAddrs}

ListOf(has) == [i \in 1 .. Len(has) |-> IF has[i] THEN {Addr(i)} ELSE {}]

(* What an address-list variable is rendered from: the variable (the _RCPT  *)
(* variables pass the limit 1, the _RCPTS variables -1), the list and the   *)
(* content of the format item; SMTP_RCPT is rendered for non-empty lists    *)
AddrInputs ==
    {[type |-> t, elts |-> ListOf(h), data |-> d] :
        t \in {"SMTP_RCPT", "SMTP_RCPTS", "MIME_RCPT", "MIME_RCPTS"},
        h \in AddrLists, d \in Templates}
      \ {in \in [type : {"SMTP_RCPT"}, elts : {<<>>}, data : Templates] : TRUE}

(* The address-list cases of rspamd_task_log_variable *)
RenderAddrs(in) ==
    CASE in.type = "SMTP_RCPT"  -> rspamd_task_write_addr_list(in.elts, 1, in.data)
      [] in.type = "SMTP_RCPTS" -> rspamd_task_write_addr_list(in.elts, -1, in.data)
      [] in.type = "MIME_RCPT"  -> rspamd_task_write_ialist(in.elts, 1, in.data)
      [] OTHER                  -> rspamd_task_write_ialist(in.elts, -1, in.data)

(* mres->action of the default metric result, "null" when task->results   *)
(* has no default metric result                                             *)
MetricActions == {"reject", "no action"}

MetricResults == {"null"} \cup MetricActions

(* rspamd_task_log_metric_res for RSPAMD_LOG_ISSPAM *)
LogIsSpam(fl, mres) ==
    IF mres # "null"
    THEN IF "SKIP" \in fl THEN <<Lit("S")>>
         ELSE IF mres = "reject" THEN <<Lit("T")>>
         ELSE <<Lit("F")>>
    ELSE <<>>

(* A C string as the text it adds to a buffer: nothing for "" *)
StrVal(str) == IF str = "" THEN <<>> ELSE <<Txt(str)>>

(* The string an optional string field holds, "undef" for NULL *)
StrOrUndef(field) ==
    IF field # {} THEN StrVal(CHOOSE x \in field : TRUE) ELSE <<Txt("undef")>>

(* Variant: the "undef" sentinel counts as a message id and a queue id *)
CheckCondition_sentinel(type, task) ==
    CASE type = "MID"  -> task.message_id # {}
      [] type = "QID"  -> task.queue_id # {}
      [] type = "USER" -> task.user # {}
      [] type = "IP"   -> task.from_addr = "valid"
      [] type \in {"SMTP_RCPT", "SMTP_RCPTS"} ->
             task.rcpt_envelope # {} /\ Len(CHOOSE x \in task.rcpt_envelope : TRUE) > 0
      [] type \in {"MIME_RCPT", "MIME_RCPTS"} ->
             task.rcpt_mime # {} /\ Len(CHOOSE x \in task.rcpt_mime : TRUE) > 0
      [] type = "SMTP_FROM" -> task.from_envelope # {}
      [] type = "MIME_FROM" ->
             task.from_mime # {} /\ Len(CHOOSE x \in task.from_mime : TRUE) > 0
      [] OTHER -> TRUE

(* rspamd_task_log_check_condition; optional fields are {} for NULL, and   *)
(* from_addr is "null", "invalid" or "valid" (rspamd_ip_is_valid)           *)
rspamd_task_log_check_condition(type, task) ==
    CASE type = "MID"  -> task.message_id # {} /\ task.message_id # {"undef"}
      [] type = "QID"  -> task.queue_id # {} /\ task.queue_id # {"undef"}
      [] type = "USER" -> task.user # {}
      [] type = "IP"   -> task.from_addr # "null" /\ task.from_addr = "valid"
      [] type \in {"SMTP_RCPT", "SMTP_RCPTS"} ->
             task.rcpt_envelope # {} /\ Len(CHOOSE x \in task.rcpt_envelope : TRUE) > 0
      [] type \in {"MIME_RCPT", "MIME_RCPTS"} ->
             task.rcpt_mime # {} /\ Len(CHOOSE x \in task.rcpt_mime : TRUE) > 0
      [] type = "SMTP_FROM" -> task.from_envelope # {}
      [] type = "MIME_FROM" ->
             task.from_mime # {} /\ Len(CHOOSE x \in task.from_mime : TRUE) > 0
      [] OTHER -> TRUE

(* The variables rspamd_task_log_variable hands to the list writers, with  *)
(* the field they read and the limit they pass                              *)
ListVars == {"MIME_FROM", "SMTP_RCPT", "MIME_RCPT", "SMTP_RCPTS", "MIME_RCPTS"}

ListField(type, task) ==
    CASE type = "MIME_FROM" -> task.from_mime
      [] type \in {"SMTP_RCPT", "SMTP_RCPTS"} -> task.rcpt_envelope
      [] OTHER -> task.rcpt_mime

ListLimit(type) == IF type \in {"SMTP_RCPTS", "MIME_RCPTS"} THEN -1 ELSE 1

(* The switch of rspamd_task_log_variable: the value var of a variable     *)
(* that is not handed to a list writer                                      *)
LogVarValue(type, task) ==
    CASE type = "MID"  -> StrOrUndef(task.message_id)
      [] type = "QID"  -> StrOrUndef(task.queue_id)
      [] type = "USER" -> StrOrUndef(task.user)
      [] type = "IP"   -> IF task.from_addr # "null" /\ task.from_addr = "valid"
                          THEN <<Txt("ip")>> ELSE <<Txt("undef")>>
      [] type = "LEN"  -> <<[t |-> "uint", s |-> "", n |-> task.msg_len]>>
      [] type = "SMTP_FROM" ->
             IF task.from_envelope # {}
             THEN StrVal(CHOOSE x \in task.from_envelope : TRUE) ELSE <<>>
      [] type \in ListVars -> <<>>
      [] OTHER -> LogIsSpam(task.flags, task.mres)

(* rspamd_task_log_variable: what it appends to logbuf for an item of the  *)
(* given type and data                                                      *)
rspamd_task_log_variable(type, data, task) ==
    IF type \in ListVars /\ ListField(type, task) # {}
    THEN LET list == CHOOSE x \in ListField(type, task) : TRUE
         IN  IF type \in {"SMTP_RCPT", "SMTP_RCPTS"}
             THEN rspamd_task_write_addr_list(list, ListLimit(type), data)
             ELSE rspamd_task_write_ialist(list, ListLimit(type), data)
    ELSE LET var == LogVarValue(type, task)
         IN  IF Len(var) > 0 THEN rspamd_task_log_write_var(var, data) ELSE <<>>

(* What a scripted log callback does: fails, returns a string, or returns  *)
(* something that is not a string                                           *)
LuaOutcomes == {"fail", "string", "nil"}

(* One item of the log format *)
Item(type, cond, lua) == [type |-> type, cond |-> cond, lua |-> lua, data |-> {}]

LogItems ==
    {Item("STRING", FALSE, "none")}
      \cup {Item("LUA", FALSE, o) : o \in LuaOutcomes}
      \cup {Item(t, c, "none") : t \in {"MID", "ISSPAM"}, c \in BOOLEAN}

NoRecord == [records |-> <<>>, evaluated |-> <<>>, lua_calls |-> 0, logbuf |-> <<>>]

(* The default case of the switch of rspamd_task_write_log: what a variable *)
(* item adds to logbuf                                                      *)
WriteVariableItem(lf, task) ==
    IF lf.cond /\ ~rspamd_task_log_check_condition(lf.type, task)
    THEN <<>>
    ELSE rspamd_task_log_variable(lf.type, lf.data, task)

(* The body of the DL_FOREACH of rspamd_task_write_log for item i *)
WriteItem(acc, lf, i, task) ==
    LET seen == [acc EXCEPT !.evaluated = Append(@, i)]
    IN  CASE lf.type = "STRING" ->
               [seen EXCEPT !.logbuf = @ \o <<Lit("s")>>]
          [] lf.type = "LUA" ->
               [seen EXCEPT !.lua_calls = @ + 1,
                            !.logbuf = IF lf.lua = "string" THEN @ \o <<Txt("lua")>>
                                       ELSE @]
          [] OTHER ->
               [seen EXCEPT !.logbuf = @ \o WriteVariableItem(lf, task)]

RECURSIVE WriteItems(_, _, _, _)
WriteItems(acc, format, i, task) ==
    IF i > Len(format) THEN acc
    ELSE WriteItems(WriteItem(acc, format[i], i, task), format, i + 1, task)

(* Variant: the loop is left when a scripted callback fails *)
WriteLog_stop(log_format, task) ==
    IF log_format = {} \/ "NO_LOG" \in task.flags THEN NoRecord
    ELSE LET format == CHOOSE x \in log_format : TRUE
             failing == {i \in 1 .. Len(format) : format[i].lua = "fail"}
             upto == IF failing = {} THEN format
                     ELSE SubSeq(format, 1, CHOOSE i \in failing : \A j \in failing : i <= j)
             acc == WriteItems(NoRecord, upto, 1, task)
         IN  [acc EXCEPT !.records = <<acc.logbuf>>]

(* rspamd_task_write_log: log_format is {} for NULL; the records given to  *)
(* msg_info_task, the items the loop went through and the calls of         *)
(* scripted callbacks                                                       *)
rspamd_task_write_log(log_format, task) ==
    IF log_format = {} \/ "NO_LOG" \in task.flags THEN NoRecord
    ELSE LET acc == WriteItems(NoRecord, CHOOSE x \in log_format : TRUE, 1, task)
         IN  [acc EXCEPT !.records = <<acc.logbuf>>]

(* The formats of at most MaxItems items *)
LogFormats == {{}} \cup {{f} : f \in SeqsUpTo(LogItems, MaxItems)}

(* What rspamd_task_write_log is called with *)
WriteLogInputs ==
    {[log_format |-> f,
      task |-> [flags |-> fl, message_id |-> m, mres |-> r]] :
        f \in LogFormats, fl \in SUBSET {"NO_LOG", "SKIP"},
        m \in {{}, {"undef"}, {"mid"}}, r \in MetricResults}

(* The fields of a task the variables read, as rspamd_task_new leaves them *)
DefaultTask ==
    [flags |-> {}, mres |-> "null", message_id |-> {"undef"}, queue_id |-> {"undef"},
     user |-> {}, from_addr |-> "null", msg_len |-> 0, from_envelope |-> {},
     from_mime |-> {}, rcpt_envelope |-> {}, rcpt_mime |-> {}]

(* Optional strings: NULL, the sentinel, an identifier, the empty string *)
OptIds == {{}, {"undef"}, {"id"}, {""}}

(* Optional address lists: NULL or a list of up to two elements *)
OptLists == {{}} \cup {{ListOf(h)} : h \in UNION {[1 .. n -> BOOLEAN] : n \in 0 .. 2}}

VarTypes ==
    {"MID", "QID", "USER", "IP", "LEN", "SMTP_FROM", "ISSPAM"} \cup ListVars

(* The tasks a variable of the given type is rendered for: the fields it    *)
(* reads take every value, the others are left as they are                  *)
VarTasks(type) ==
    CASE type = "MID"  -> {[DefaultTask EXCEPT !.message_id = m] : m \in OptIds}
      [] type = "QID"  -> {[DefaultTask EXCEPT !.queue_id = m] : m \in OptIds}
      [] type = "USER" -> {[DefaultTask EXCEPT !.user = m] : m \in OptIds}
      [] type = "IP"   ->
             {[DefaultTask EXCEPT !.from_addr = a] : a \in {"null", "invalid", "valid"}}
      [] type = "LEN"  -> {[DefaultTask EXCEPT !.msg_len = n] : n \in 0 .. MaxSize}
      [] type = "SMTP_FROM" ->
             {[DefaultTask EXCEPT !.from_envelope = a] : a \in {{}, {""}, {"from"}}}
      [] type = "MIME_FROM" -> {[DefaultTask EXCEPT !.from_mime = l] : l \in OptLists}
      [] type \in {"SMTP_RCPT", "SMTP_RCPTS"} ->
             {[DefaultTask EXCEPT !.rcpt_envelope = l] : l \in OptLists}
      [] type \in {"MIME_RCPT", "MIME_RCPTS"} ->
             {[DefaultTask EXCEPT !.rcpt_mime = l] : l \in OptLists}
      [] OTHER ->
             {[DefaultTask EXCEPT !.flags = fl, !.mres = r] :
                 fl \in SUBSET {"SKIP"}, r \in MetricResults}

(* The data of a variable item: {} for NULL, else a text of $ and letters *)
DataTemplates ==
    {{}} \cup {{c} : c \in SeqsUpTo({Lit("$"), Lit("a")}, MaxTemplate)}

(* What a variable item is rendered from *)
VarInputs ==
    UNION {{[lf |-> [type |-> t, cond |-> c, lua |-> "none", data |-> d], task |-> k] :
               c \in BOOLEAN, d \in DataTemplates, k \in VarTasks(t)} : t \in VarTypes}

----------------------------------------------------------------------------
(* Initial state: the task as rspamd_task_new returns it *)

ZeroCount == [s \in StageBits |-> 0]

NoSusp == [st |-> 0, stages |-> 0]

NoSel == [done |-> 0, req |-> 0, st |-> 0, ps |-> 0]

NoReplies == [callback |-> 0, protocol |-> 0]

NoRes == [st |-> 0, ok |-> TRUE]

rspamd_task_new(c, check_all_filters) ==
    /\ cfg = c
    /\ cfg_refs = IF c THEN 1 ELSE 0
    /\ flags = (IF c /\ check_all_filters THEN {"PASS_ALL"} ELSE {}) \cup {"MIME", "JSON"}
    /\ processed_stages = 0
    /\ pre_result = METRIC_ACTION_MAX
    /\ err = "none"
    /\ checkpoint = "null"
    /\ msg = NoMsg
    /\ pool = "alive"
    /\ dtors = rspamd_task_new_destructors
    /\ dtor_log = <<>>

(* rspamadm_lua_run_repl at its first prompt: nothing read, single-line mode; *)
(* tb is {} while no GString is allocated                                      *)
ReplStart ==
    [is_multiline |-> FALSE, tb |-> {}, pc |-> "run", input |-> {}, block |-> <<>>,
     exec |-> <<>>, dot |-> <<>>, history |-> <<>>, n |-> 0]

InitRest ==
    /\ repl = ReplStart
    /\ pending = 0
    /\ pc = "idle" /\ st = 0 /\ stages = 0 /\ caller = "none"
    /\ ret = "none" /\ tick = 0
    /\ dispatched = ZeroCount /\ suspended = ZeroCount
    /\ susp = NoSusp /\ entry = [kind |-> "none", from |-> 0]
    /\ nested = [n |-> 0, ret |-> "none"]
    /\ events = 0 /\ replies = NoReplies /\ fin_ret = "none" /\ timed_out = FALSE
    /\ hres = NoRes /\ calls = [f \in Routines |-> 0]
    /\ loaded = "no" /\ load_in = NoReq /\ control = "none"
    /\ fds = [opened |-> 0, closed |-> 0]
    /\ maps = [mapped |-> 0, unmapped |-> 0, size |-> 0]
    /\ logged = FALSE
    /\ deliver_to = {}
    /\ rcpt_envelope = NoEnvelope
    /\ rcpt_mime = NoMime
    /\ recipient = 0 /\ heap = <<>>
    /\ principal = NoCalls
    /\ from_envelope = FALSE
    /\ addr_refs = NoAddrRefs

(* A task is created with a configuration or without one; the configuration *)
(* has check_all_filters off: it only adds RSPAMD_TASK_FLAG_PASS_ALL, which  *)
(* nothing in the life of the task modelled here reads                       *)
Init ==
    /\ \E c \in BOOLEAN : rspamd_task_new(c, FALSE)
    /\ fin_callback = FALSE
    /\ InitRest
    /\ sel = NoSel
    /\ log = NoLog

----------------------------------------------------------------------------
(* Message loading *)

Load(in) ==
    /\ pc = "idle" /\ loaded = "no"
    /\ load_in' = in
    /\ LET r == rspamd_task_load_message(flags, msg, in)
       IN  /\ loaded' = IF r.ok THEN "ok" ELSE "fail"
           /\ control' = r.control
           /\ msg' = r.msg
           /\ flags' = r.flags
           /\ err' = r.err
           /\ fds' = r.fds
           /\ maps' = r.maps
           /\ dtors' = dtors \o r.dtors
    /\ UNCHANGED <<processed_stages, pre_result, checkpoint, pending, ctl_vars,
                   obs_vars, cfg_refs, dtor_log, pool, cfg, fin_callback, logged,
                   sel, rcpt_vars, log, repl>>

(* The loads the pipeline is run after: empty inline data and a file *)
PipeLoads ==
    {in \in LoadInputs : /\ in.hdrs \in {{}, {"file"}}
                         /\ ~in.has_control
                         /\ in.hdrs = {"file"} => in.size = MaxSize
                         /\ in.len = 0}

LoadMessage == pc = "idle" /\ loaded = "no" /\ \E in \in PipeLoads : Load(in)

(* rspamd_learn_task_spam, called by the controller before the task is processed *)
rspamd_learn_task_spam(is_spam) ==
    /\ pc = "idle" /\ loaded = "ok" /\ entry.kind = "none" /\ fin_ret = "none"
    /\ flags \cap {"LEARN_SPAM", "LEARN_HAM"} = {}
    /\ flags' = flags \cup {IF is_spam THEN "LEARN_SPAM" ELSE "LEARN_HAM"}
    /\ UNCHANGED <<processed_stages, pre_result, err, checkpoint, msg, pending,
                   ctl_vars, obs_vars, res_vars, sel, rcpt_vars, log, repl>>

LearnTask == \E is_spam \in BOOLEAN : rspamd_learn_task_spam(is_spam)

----------------------------------------------------------------------------
(* rspamd_task_fin and rspamd_task_process *)

(* rspamd_task_reply: through the callback if one is set, else the protocol writer *)
rspamd_task_reply(cb, r) ==
    IF cb THEN [r EXCEPT !.callback = @ + 1] ELSE [r EXCEPT !.protocol = @ + 1]

(* Variant: no reply is written when rspamd_task_process fails *)
FinAfter_silent(r, ps) ==
    IF ~r THEN [reply |-> 0, terminate |-> TRUE]
    ELSE IF RSPAMD_TASK_IS_PROCESSED(ps) THEN [reply |-> 1, terminate |-> TRUE]
    ELSE [reply |-> 0, terminate |-> FALSE]

(* rspamd_task_fin after its rspamd_task_process call returned r *)
FinAfter(r, ps) ==
    IF ~r THEN [reply |-> 1, terminate |-> TRUE]
    ELSE IF RSPAMD_TASK_IS_PROCESSED(ps) THEN [reply |-> 1, terminate |-> TRUE]
    ELSE [reply |-> 0, terminate |-> FALSE]

(* A gboolean as it is recorded in ret, fin_ret and nested.ret *)
Str(b) == IF b THEN "true" ELSE "false"

(* The top-level rspamd_task_process returns r to its caller who *)
Return(r, ps, who) ==
    /\ pc' = "idle" /\ caller' = "none" /\ ret' = Str(r)
    /\ st' = 0 /\ stages' = 0
    /\ nested' = [n |-> 0, ret |-> "none"]
    /\ IF who = "fin"
       THEN /\ replies' = IF FinAfter(r, ps).reply = 1
                           THEN rspamd_task_reply(fin_callback, replies) ELSE replies
            /\ fin_ret' = Str(FinAfter(r, ps).terminate)
       ELSE UNCHANGED <<replies, fin_ret>>

RECURSIVE Total(_, _)
Total(f, S) == IF S = {} THEN 0
               ELSE LET x == CHOOSE y \in S : TRUE IN f[x] + Total(f, S \ {x})

(* A caller processes a loaded task that is not being torn down yet *)
CanCall ==
    /\ pc = "idle" /\ loaded = "ok" /\ cfg /\ ~logged
    /\ Total(suspended, StageBits) < MaxSuspend

(* A top-level call rspamd_task_process (task, stgs) up to the switch *)
Call(stgs, who) ==
    LET e == ProcessEnter(flags, processed_stages, pre_result, stgs)
    IN  /\ flags' = e.flags
        /\ processed_stages' = e.ps
        /\ tick' = 1 - tick
        /\ entry' = [kind |-> e.kind,
                      from |-> IF stgs = susp.stages THEN susp.st ELSE 0]
        /\ susp' = NoSusp
        /\ hres' = NoRes
        /\ IF e.kind = "dispatch"
           THEN /\ pc' = "handler" /\ st' = e.st /\ stages' = stgs /\ caller' = who
                /\ dispatched' = [dispatched EXCEPT ![e.st] = @ + 1]
                /\ calls' = Invoke(calls, ExternalCall(e.st, e.flags, err))
                /\ UNCHANGED <<ret, replies, fin_ret, nested>>
           ELSE /\ dispatched' = dispatched
                /\ calls' = calls
                /\ Return(TRUE, e.ps, who)
        /\ UNCHANGED <<pre_result, err, checkpoint, msg, pending, suspended, events,
                       timed_out, res_vars, sel, rcpt_vars, log, repl>>

(* The masks callers other than rspamd_task_fin process a task with *)
LearnMask ==
    BitSum({RSPAMD_TASK_STAGE_READ_MESSAGE, RSPAMD_TASK_STAGE_CLASSIFIERS_PRE,
            RSPAMD_TASK_STAGE_CLASSIFIERS, RSPAMD_TASK_STAGE_CLASSIFIERS_POST,
            RSPAMD_TASK_STAGE_LEARN_PRE, RSPAMD_TASK_STAGE_LEARN,
            RSPAMD_TASK_STAGE_LEARN_POST, RSPAMD_TASK_STAGE_DONE})

CallMasks ==
    {RSPAMD_TASK_PROCESS_ALL, LearnMask,
     BitSum({RSPAMD_TASK_STAGE_COMPOSITES, RSPAMD_TASK_STAGE_DONE})}

Process == \E stgs \in CallMasks : CanCall /\ Call(stgs, "direct")

(* rspamd_task_fin, called by the session when no events are pending *)
Fin ==
    /\ CanCall /\ fin_ret # "true" /\ pending = 0
    /\ IF RSPAMD_TASK_IS_PROCESSED(processed_stages)
       THEN /\ replies' = rspamd_task_reply(fin_callback, replies)
            /\ fin_ret' = "true"
            /\ UNCHANGED <<task_vars, pending, ctl_vars, ret, tick, dispatched,
                           suspended, susp, entry, nested, events, timed_out,
                           hres, calls, res_vars, sel, rcpt_vars, log, repl>>
       ELSE Call(RSPAMD_TASK_PROCESS_ALL, "fin")

(* The tail call return rspamd_task_process (task, stages) *)
ProcessTail ==
    /\ pc = "tail"
    /\ LET e == ProcessEnter(flags, processed_stages, pre_result, stages)
       IN  /\ flags' = e.flags
           /\ processed_stages' = e.ps
           /\ hres' = NoRes
           /\ IF e.kind = "dispatch"
              THEN /\ pc' = "handler" /\ st' = e.st
                   /\ dispatched' = [dispatched EXCEPT ![e.st] = @ + 1]
                   /\ calls' = Invoke(calls, ExternalCall(e.st, e.flags, err))
                   /\ UNCHANGED <<stages, caller, ret, replies, fin_ret, nested>>
              ELSE /\ dispatched' = dispatched
                   /\ calls' = calls
                   /\ Return(TRUE, e.ps, caller)
    /\ UNCHANGED <<pre_result, err, checkpoint, msg, pending, tick, suspended,
                   susp, entry, events, timed_out, res_vars, sel, rcpt_vars, log, repl>>

(* The stages whose handler's result the switch reads *)
ResultRead(s) ==
    s \in {RSPAMD_TASK_STAGE_READ_MESSAGE, RSPAMD_TASK_STAGE_FILTERS} \cup LearnStages

(* The handler returns ok; the rest of rspamd_task_process up to its return *)
(* or its tail call                                                          *)
HandlerReturn ==
    /\ pc = "handler"
    /\ nested.ret # "running"
    /\ \E ok \in (IF HandlerRuns(st, flags, err) THEN BOOLEAN ELSE {TRUE}) :
         LET sw == StageSwitch(st, flags, processed_stages, err, ok)
             ex == ProcessExit(st, flags, sw.ps, sw.ret, pending)
         IN  /\ hres' = [st |-> st, ok |-> ok]
             /\ calls' = Invoke(calls, AutolearnCall(st, flags))
             /\ flags' = ex.flags
             /\ processed_stages' = ex.ps
             /\ err' = sw.err
             /\ checkpoint' = IF ex.clear THEN "null" ELSE checkpoint
             /\ CASE ex.how = "tail" ->
                       /\ pc' = "tail"
                       /\ nested' = [n |-> 0, ret |-> "none"]
                       /\ UNCHANGED <<st, stages, caller, ret, replies, fin_ret,
                                      suspended, susp>>
                  [] ex.how = "suspend" ->
                       /\ suspended' = [suspended EXCEPT ![st] = @ + 1]
                       /\ susp' = [st |-> st, stages |-> stages]
                       /\ Return(ex.ret, ex.ps, caller)
                  [] OTHER ->
                       /\ Return(ex.ret, ex.ps, caller)
                       /\ UNCHANGED <<suspended, susp>>
    /\ UNCHANGED <<pre_result, msg, pending, tick, dispatched, entry, events,
                   timed_out, res_vars, sel, rcpt_vars, log, repl>>

----------------------------------------------------------------------------
(* What the external stage handlers do to the task while they run *)

InHandler == pc = "handler" /\ nested.ret # "running" /\ HandlerRuns(st, flags, err)

(* A handler calls rspamd_task_process itself *)
HandlerNested ==
    /\ InHandler /\ nested.n < MaxNested
    /\ \E stgs \in CallMasks :
         LET e == ProcessEnter(flags, processed_stages, pre_result, stgs)
         IN  /\ flags' = e.flags
             /\ processed_stages' = e.ps
             /\ nested' = [n   |-> nested.n + 1,
                           ret |-> IF e.kind = "dispatch" THEN "running" ELSE "true"]
             /\ dispatched' = IF e.kind = "dispatch"
                              THEN [dispatched EXCEPT ![e.st] = @ + 1]
                              ELSE dispatched
             /\ calls' = IF e.kind = "dispatch"
                         THEN Invoke(calls, ExternalCall(e.st, e.flags, err))
                         ELSE calls
    /\ UNCHANGED <<pre_result, err, checkpoint, msg, pending, ctl_vars, ret, tick,
                   suspended, susp, entry, events, replies, fin_ret, timed_out,
                   hres, res_vars, sel, rcpt_vars, log, repl>>

(* A handler registers an asynchronous event with the session *)
HandlerAddEvent ==
    /\ InHandler /\ events < MaxEvents
    /\ st \in {RSPAMD_TASK_STAGE_PRE_FILTERS, RSPAMD_TASK_STAGE_FILTERS,
               RSPAMD_TASK_STAGE_CLASSIFIERS, RSPAMD_TASK_STAGE_LEARN}
    /\ pending' = pending + 1
    /\ events' = events + 1
    /\ UNCHANGED <<task_vars, ctl_vars, ret, tick, dispatched, suspended, susp, entry,
                   nested, replies, fin_ret, timed_out, hres, calls, res_vars, sel, rcpt_vars, log, repl>>

(* A pre-filter or a rule forces a verdict *)
HandlerSetPreResult ==
    /\ InHandler
    /\ st \in {RSPAMD_TASK_STAGE_PRE_FILTERS, RSPAMD_TASK_STAGE_FILTERS}
    /\ pre_result = METRIC_ACTION_MAX
    /\ pre_result' = METRIC_ACTION_REJECT
    /\ UNCHANGED <<flags, processed_stages, err, checkpoint, msg, pending, ctl_vars,
                   obs_vars, res_vars, sel, rcpt_vars, log, repl>>

(* A pre-filter marks the task as skipped *)
HandlerSetSkip ==
    /\ InHandler
    /\ st = RSPAMD_TASK_STAGE_PRE_FILTERS
    /\ "SKIP" \notin flags
    /\ flags' = flags \cup {"SKIP"}
    /\ UNCHANGED <<processed_stages, pre_result, err, checkpoint, msg, pending,
                   ctl_vars, obs_vars, res_vars, sel, rcpt_vars, log, repl>>

(* The rules engine stashes its checkpoint *)
HandlerSetCheckpoint ==
    /\ InHandler
    /\ st = RSPAMD_TASK_STAGE_FILTERS
    /\ checkpoint = "null"
    /\ checkpoint' = "set"
    /\ UNCHANGED <<flags, processed_stages, pre_result, err, msg, pending, ctl_vars,
                   obs_vars, res_vars, sel, rcpt_vars, log, repl>>

(* The classifier turns autolearning on; rspamd_stat_check_autolearn picks a class *)
HandlerAutolearn ==
    /\ InHandler
    /\ \/ /\ st = RSPAMD_TASK_STAGE_CLASSIFIERS
          /\ "LEARN_AUTO" \notin flags
          /\ flags' = flags \cup {"LEARN_AUTO"}
       \/ /\ st = RSPAMD_TASK_STAGE_POST_FILTERS
          /\ "LEARN_AUTO" \in flags /\ ~RSPAMD_TASK_IS_EMPTY(flags)
          /\ flags \cap {"LEARN_SPAM", "LEARN_HAM"} = {}
          /\ flags' = flags \cup {"LEARN_SPAM"}
    /\ UNCHANGED <<processed_stages, pre_result, err, checkpoint, msg, pending,
                   ctl_vars, obs_vars, res_vars, sel, rcpt_vars, log, repl>>

----------------------------------------------------------------------------
(* The session and the callers around the pipeline *)

(* An asynchronous event completes *)
EventDone ==
    /\ pc = "idle" /\ pending > 0
    /\ pending' = pending - 1
    /\ UNCHANGED <<task_vars, ctl_vars, obs_vars, res_vars, sel, rcpt_vars, log, repl>>

(* A forced verdict is set outside the pipeline (settings, an event callback) *)
SetPreResult ==
    /\ pc = "idle" /\ loaded = "ok" /\ fin_ret # "true"
    /\ pre_result = METRIC_ACTION_MAX
    /\ pre_result' = METRIC_ACTION_REJECT
    /\ UNCHANGED <<flags, processed_stages, err, checkpoint, msg, pending, ctl_vars,
                   obs_vars, res_vars, sel, rcpt_vars, log, repl>>

(* The timeout timer fires: the task is marked as processed and rspamd_task_fin runs *)
Timeout ==
    /\ pc = "idle" /\ loaded = "ok" /\ ~timed_out /\ fin_ret # "true"
    /\ timed_out' = TRUE
    /\ processed_stages' = BitOr(processed_stages, RSPAMD_TASK_STAGE_DONE)
    /\ replies' = rspamd_task_reply(fin_callback, replies)
    /\ fin_ret' = "true"
    /\ UNCHANGED <<flags, pre_result, err, checkpoint, msg, pending, ctl_vars, ret,
                   tick, dispatched, suspended, susp, entry, nested, events,
                   hres, calls, res_vars, sel, rcpt_vars, log, repl>>

(* The default metric results the task may have: task->results is created  *)
(* empty and only code outside the pipeline adds to it, the handlers of the *)
(* stages and whoever sets a forced verdict                                  *)
DefaultMetricResults ==
    {"null"} \cup (IF pre_result # METRIC_ACTION_MAX \/ \E b \in StageBits : dispatched[b] > 0
                   THEN MetricActions ELSE {})

(* What the ISSPAM variable renders for the task as it is *)
IsSpamRenderings == {LogIsSpam(flags, m) : m \in DefaultMetricResults}

(* rspamd_task_write_log, called once when the task is finished; as far as    *)
(* the pool is concerned: n SYMBOLS items are rendered                        *)
WriteLog ==
    /\ pc = "idle" /\ cfg /\ ~logged
    /\ loaded = "fail" \/ fin_ret = "true"
    /\ logged' = TRUE
    /\ \E n \in 0 .. MaxLogSyms : dtors' = dtors \o LogDestructors(n)
    /\ UNCHANGED <<task_vars, pending, ctl_vars, obs_vars, loaded, load_in, control,
                   cfg_refs, fds, maps, dtor_log, pool, cfg, fin_callback, sel, rcpt_vars, log, repl>>

(* rspamd_task_free, called when the session of the task is destroyed: after *)
(* the reply is written, or at once if the task cannot be processed          *)
Free ==
    /\ pc = "idle"
    /\ ~cfg \/ loaded = "fail" \/ fin_ret = "true"
    /\ LET r == rspamd_task_free(cfg, cfg_refs, dtors, maps, rcpt_envelope,
                                 from_envelope, addr_refs)
       IN  /\ addr_refs' = r.addr_refs
           /\ cfg_refs' = r.cfg_refs
           /\ dtor_log' = r.dtor_log
           /\ maps' = r.maps
           /\ pool' = r.pool
    /\ pc' = "freed"
    /\ UNCHANGED <<task_vars, pending, st, stages, caller, obs_vars, loaded,
                   load_in, control, fds, dtors, cfg, fin_callback, logged, sel,
                   deliver_to, rcpt_envelope, rcpt_mime, recipient, heap, principal,
                   from_envelope, log, repl>>

----------------------------------------------------------------------------
(* The task from construction to destruction *)

Next ==
    \/ LoadMessage
    \/ LearnTask
    \/ Process
    \/ Fin
    \/ ProcessTail
    \/ HandlerReturn
    \/ HandlerNested
    \/ HandlerAddEvent
    \/ HandlerSetPreResult
    \/ HandlerSetSkip
    \/ HandlerSetCheckpoint
    \/ HandlerAutolearn
    \/ EventDone
    \/ SetPreResult
    \/ Timeout
    \/ WriteLog
    \/ Free

Spec == Init /\ [][Next]_vars

(* The same task life when its creator may have set a finalize callback, as *)
(* the controller does, or not, as the scanning worker                      *)
FinInit ==
    /\ rspamd_task_new(TRUE, FALSE)
    /\ fin_callback \in BOOLEAN
    /\ InitRest
    /\ sel = NoSel
    /\ log = NoLog

FinSpec == FinInit /\ [][Next]_vars

----------------------------------------------------------------------------
(* Message loading from every source, followed by the end of the task *)

LoadAny == pc = "idle" /\ loaded = "no" /\ \E in \in LoadInputs : Load(in)

LoadNext ==
    \/ LoadAny
    \/ Timeout
    \/ WriteLog
    \/ Free

LoadSpec == Init /\ [][LoadNext]_vars

----------------------------------------------------------------------------
(* The task until its reply is written, driven by the session: a caller     *)
(* may make the first call with any mask; after that the handlers return,   *)
(* the tail calls are made, events complete and the session calls           *)
(* rspamd_task_fin when none is pending                                      *)

(* The masks of the first call, one of them without the DONE bit *)
LiveMasks ==
    {RSPAMD_TASK_PROCESS_ALL,
     BitSum({RSPAMD_TASK_STAGE_READ_MESSAGE, RSPAMD_TASK_STAGE_PRE_FILTERS,
             RSPAMD_TASK_STAGE_FILTERS})}

ProcessAny ==
    \E stgs \in LiveMasks : CanCall /\ entry.kind = "none" /\ Call(stgs, "direct")

LiveNext ==
    \/ LoadMessage
    \/ LearnTask
    \/ ProcessAny
    \/ Fin
    \/ ProcessTail
    \/ HandlerReturn
    \/ HandlerAddEvent
    \/ HandlerSetPreResult
    \/ HandlerSetSkip
    \/ HandlerSetCheckpoint
    \/ HandlerAutolearn
    \/ EventDone

(* The task as rspamd_task_new returns it to the worker *)
LiveInit ==
    /\ rspamd_task_new(TRUE, FALSE)
    /\ fin_callback = FALSE
    /\ InitRest
    /\ sel = NoSel
    /\ log = NoLog

(* A handler that was called returns, a pending event completes, and the   *)
(* session calls rspamd_task_fin when it has no events left; the tail call  *)
(* is a statement of the running function, so control does not stay in      *)
(* front of it (ProcessTail is enabled exactly when pc = "tail" and leaves  *)
(* that position, so this is weak fairness of ProcessTail)                  *)
LiveSpec ==
    /\ LiveInit /\ [][LiveNext]_vars
    /\ WF_vars(HandlerReturn) /\ WF_vars(EventDone) /\ WF_vars(Fin)
    /\ []<>(pc # "tail")

----------------------------------------------------------------------------
(* The stage selector on its own, for every bitmap of completed stages *)

ReqMasks ==
    {BitSum(S) : S \in {T \in SUBSET StageBits : Cardinality(T) <= MaxReqBits}}
        \cup {RSPAMD_TASK_PROCESS_ALL}

SelInit ==
    /\ rspamd_task_new(TRUE, FALSE)
    /\ fin_callback = FALSE
    /\ InitRest
    /\ \E d \in 0 .. RSPAMD_TASK_STAGE_DONE - 1, r \in ReqMasks :
           sel = [done |-> d, req |-> r, st |-> 0, ps |-> d]
    /\ log = NoLog

SelectStage ==
    /\ sel.st = 0
    /\ LET r == rspamd_task_select_processing_stage(sel.done, sel.req)
       IN  sel' = [sel EXCEPT !.st = r.st, !.ps = r.ps]
    /\ UNCHANGED <<task_vars, pending, ctl_vars, obs_vars, res_vars, rcpt_vars, log, repl>>

SelNext == SelectStage

SelSpec == SelInit /\ [][SelNext]_vars

----------------------------------------------------------------------------
(* The recipients of a task and the calls that ask for the principal one *)

rest_vars == <<task_vars, pending, ctl_vars, obs_vars, res_vars, sel, log, repl>>

Stale == [principal EXCEPT !.fresh = FALSE]

(* The protocol layer or a script sets task->deliver_to *)
SetDeliverTo ==
    /\ ~principal.crashed
    /\ \E d \in OptStrs : d # deliver_to /\ deliver_to' = d
    /\ principal' = Stale
    /\ UNCHANGED <<rcpt_envelope, rcpt_mime, recipient, heap, from_envelope,
                   addr_refs, rest_vars>>

(* The envelope recipients are set or replaced *)
SetEnvelope ==
    /\ ~principal.crashed
    /\ \E e \in Envelopes : e # rcpt_envelope /\ rcpt_envelope' = e
    /\ addr_refs' = [addr_refs EXCEPT !.rcpt = [i \in 1 .. Len(rcpt_envelope'.addrs) |-> 1]]
    /\ principal' = Stale
    /\ UNCHANGED <<deliver_to, rcpt_mime, recipient, heap, from_envelope, rest_vars>>

(* The message parser sets the recipients of the MIME headers *)
SetMime ==
    /\ ~principal.crashed
    /\ \E m \in Mimes : m # rcpt_mime /\ rcpt_mime' = m
    /\ principal' = Stale
    /\ UNCHANGED <<deliver_to, rcpt_envelope, recipient, heap, from_envelope,
                   addr_refs, rest_vars>>

(* One call of rspamd_task_get_principal_recipient *)
GetPrincipalRecipient ==
    /\ ~principal.crashed /\ principal.n < MaxRcptCalls
    /\ LET r == rspamd_task_get_principal_recipient(recipient, heap, deliver_to,
                                                    rcpt_envelope, rcpt_mime)
       IN  IF r.crash
           THEN /\ principal' = [principal EXCEPT !.crashed = TRUE]
                /\ UNCHANGED <<recipient, heap>>
           ELSE /\ recipient' = r.recipient
                /\ heap' = r.heap
                /\ principal' = [n       |-> principal.n + 1,
                                 last    |-> r.ret,
                                 first   |-> IF principal.first # 0
                                             THEN principal.first ELSE r.ret,
                                 fresh   |-> TRUE,
                                 crashed |-> FALSE]
    /\ UNCHANGED <<deliver_to, rcpt_envelope, rcpt_mime, from_envelope, addr_refs,
                   rest_vars>>

RcptNext ==
    \/ SetDeliverTo
    \/ SetEnvelope
    \/ SetMime
    \/ GetPrincipalRecipient

RcptSpec == Init /\ [][RcptNext]_vars

----------------------------------------------------------------------------
(* The task's references: its configuration and the envelope addresses the  *)
(* protocol layer hands to it, until rspamd_task_free                        *)

(* The protocol layer sets task->from_envelope to a parsed address; the task *)
(* holds one reference, others may hold more                                 *)
SetFromEnvelope ==
    /\ pc = "idle" /\ ~from_envelope
    /\ from_envelope' = TRUE
    /\ \E n \in 1 .. MaxHolders : addr_refs' = [addr_refs EXCEPT !.from = n]
    /\ UNCHANGED <<deliver_to, rcpt_envelope, rcpt_mime, recipient, heap, principal,
                   rest_vars>>

(* The protocol layer adds a parsed address to task->rcpt_envelope, creating *)
(* the array for the first one                                               *)
AddRcpt ==
    /\ pc = "idle" /\ Len(rcpt_envelope.addrs) < MaxEnvelope
    /\ rcpt_envelope' = [present |-> TRUE,
                         addrs   |-> Append(rcpt_envelope.addrs, {<<"b">>}),
                         oob     |-> NoOob]
    /\ \E n \in 1 .. MaxHolders :
          addr_refs' = [addr_refs EXCEPT !.rcpt = Append(@, n)]
    /\ principal' = Stale
    /\ UNCHANGED <<deliver_to, rcpt_mime, recipient, heap, from_envelope, rest_vars>>

(* The message is loaded: an empty inline message, which succeeds, or a file *)
(* that cannot be opened, which fails                                        *)
RefLoads ==
    {NoReq, [NoReq EXCEPT !.hdrs = {"file"}, !.open_ok = FALSE, !.mmap_ok = FALSE]}

RefLoad == pc = "idle" /\ loaded = "no" /\ \E in \in RefLoads : Load(in)

RefNext ==
    \/ RefLoad
    \/ SetFromEnvelope
    \/ AddRcpt
    \/ Timeout
    \/ Free

RefSpec == Init /\ [][RefNext]_vars

----------------------------------------------------------------------------
(* The routines of the log formatter on their own, for every input *)

LogInputs ==
    {[kind |-> "symbols", in |-> i, done |-> FALSE, out |-> <<>>] : i \in SymbolInputs}
      \cup {[kind |-> "addrs", in |-> i, done |-> FALSE, out |-> <<>>] : i \in AddrInputs}
      \cup {[kind |-> "write_log", in |-> i, done |-> FALSE, out |-> NoRecord] :
               i \in WriteLogInputs}
      \cup {[kind |-> "variable", in |-> i, done |-> FALSE, out |-> <<>>] :
               i \in VarInputs}

LogInit ==
    /\ rspamd_task_new(TRUE, FALSE)
    /\ fin_callback = FALSE
    /\ InitRest
    /\ sel = NoSel
    /\ log \in LogInputs

log_rest == <<task_vars, pending, ctl_vars, obs_vars, res_vars, sel, rcpt_vars, repl>>

(* RSPAMD_LOG_SYMBOLS is rendered *)
LogSymbols ==
    /\ log.kind = "symbols" /\ ~log.done
    /\ \E r \in RenderSymbols(log.in.iter, log.in.lf_flags, log.in.conv) :
           log' = [log EXCEPT !.done = TRUE, !.out = r]
    /\ UNCHANGED log_rest

(* An address-list variable is rendered *)
LogAddrs ==
    /\ log.kind = "addrs" /\ ~log.done
    /\ log' = [log EXCEPT !.done = TRUE, !.out = RenderAddrs(log.in)]
    /\ UNCHANGED log_rest

(* rspamd_task_write_log is called *)
LogRecord ==
    /\ log.kind = "write_log" /\ ~log.done
    /\ log' = [log EXCEPT !.done = TRUE,
                          !.out = rspamd_task_write_log(log.in.log_format, log.in.task)]
    /\ UNCHANGED log_rest

(* One variable item of the format is rendered into the log line *)
LogVariable ==
    /\ log.kind = "variable" /\ ~log.done
    /\ log' = [log EXCEPT !.done = TRUE,
                          !.out = WriteVariableItem(log.in.lf, log.in.task)]
    /\ UNCHANGED log_rest

LogNext ==
    \/ LogSymbols
    \/ LogAddrs
    \/ LogRecord
    \/ LogVariable

LogSpec == LogInit /\ [][LogNext]_vars

----------------------------------------------------------------------------
(* The administrative REPL: rspamadm lua                                    *)

(* The names of cmds[], the keys of cmds_hash *)
cmds == {"help", "load", "message"}

(* What linenoise returns: {} for NULL at the end of the input, else a line; *)
(* a line is a sequence of lexemes: ".", " ", "{{", "}}" and words            *)
Lines ==
    {<<>>, <<"{{">>, <<"}}">>, <<"x">>, <<".">>, <<".", "help">>,
     <<".", "help", " ", "x">>, <<".", "nocmd">>, <<".", " ", "help">>}

ReplInputs == {{}} \cup {{l} : l \in Lines}

(* g_strsplit_set (string, " ", -1): the tokens between the blanks, no token *)
(* for the empty string                                                      *)
RECURSIVE SplitFrom(_, _, _)
SplitFrom(s, cur, acc) ==
    IF s = <<>> THEN Append(acc, cur)
    ELSE IF Head(s) = " "
         THEN SplitFrom(Tail(s), <<>>, Append(acc, cur))
         ELSE SplitFrom(Tail(s), Append(cur, Head(s)), acc)

g_strsplit_set(s) == IF s = <<>> THEN <<>> ELSE SplitFrom(s, <<>>, <<>>)

(* Variant: every line with a first token is taken as a command *)
TryDot_any(input) ==
    LET argv == g_strsplit_set(Tail(input))
    IN  IF argv = <<>> THEN [ok |-> FALSE, argv |-> <<>>]
        ELSE [ok |-> TRUE, argv |-> argv]

(* rspamadm_lua_try_dot_command: ok and the argv handed to the handler *)
rspamadm_lua_try_dot_command(input) ==
    LET argv == g_strsplit_set(Tail(input))
    IN  IF argv = <<>> THEN [ok |-> FALSE, argv |-> <<>>]
        ELSE IF \E c \in cmds : argv[1] = <<c>>
             THEN [ok |-> TRUE, argv |-> argv]
             ELSE [ok |-> FALSE, argv |-> <<>>]

(* One turn of the loop at MAIN_PROMPT *)
MainPrompt(r, input) ==
    IF input = {} THEN [r EXCEPT !.pc = "returned", !.input = input]
    ELSE LET line == CHOOSE l \in input : TRUE
             dotc == IF line # <<>> /\ Head(line) = "."
                     THEN rspamadm_lua_try_dot_command(line)
                     ELSE [ok |-> FALSE, argv |-> <<>>]
             read == [r EXCEPT !.input = input, !.n = @ + 1]
         IN  IF dotc.ok
             THEN [read EXCEPT !.dot = Append(@, dotc.argv),
                               !.history = Append(@, line)]
             ELSE IF line = <<"{{">>
             THEN [read EXCEPT !.is_multiline = TRUE, !.tb = {<<>>}, !.block = <<>>]
             ELSE [read EXCEPT !.exec = Append(@, line),
                               !.history = Append(@, line)]

(* One turn of the loop at MULTILINE_PROMPT *)
MultilinePrompt(r, input) ==
    LET tb == CHOOSE t \in r.tb : TRUE
    IN  IF input = {}
        THEN [r EXCEPT !.tb = {}, !.pc = "returned", !.input = input]
        ELSE LET line == CHOOSE l \in input : TRUE
                 read == [r EXCEPT !.input = input, !.n = @ + 1]
             IN  IF line = <<"}}">>
                 THEN [read EXCEPT
                          !.is_multiline = FALSE,
                          !.exec = Append(@, tb),
                          !.history = Append(@, [i \in DOMAIN tb |->
                                                    IF tb[i] = "\n" THEN " " ELSE tb[i]]),
                          !.tb = {}]
                 ELSE [read EXCEPT !.tb = {tb \o line \o <<" ", "\n">>},
                                   !.block = Append(@, line)]

repl_rest == <<task_vars, pending, ctl_vars, obs_vars, res_vars, sel, rcpt_vars, log>>

(* The input ends at any time and has at most MaxLines lines *)
ReplMain ==
    /\ repl.pc = "run" /\ ~repl.is_multiline
    /\ \E input \in ReplInputs :
           /\ input # {} => repl.n < MaxLines
           /\ repl' = MainPrompt(repl, input)
    /\ UNCHANGED repl_rest

ReplMultiline ==
    /\ repl.pc = "run" /\ repl.is_multiline
    /\ \E input \in ReplInputs :
           /\ input # {} => repl.n < MaxLines
           /\ repl' = MultilinePrompt(repl, input)
    /\ UNCHANGED repl_rest

ReplNext ==
    \/ ReplMain
    \/ ReplMultiline

(* rspamadm lua processes no task: the task variables stay as they start *)
ReplInit ==
    /\ rspamd_task_new(TRUE, FALSE)
    /\ fin_callback = FALSE
    /\ InitRest
    /\ sel = NoSel
    /\ log = NoLog

ReplSpec == ReplInit /\ [][ReplNext]_vars

----------------------------------------------------------------------------
(* Properties of the pipeline *)

DoneBit == RSPAMD_TASK_STAGE_DONE

(* C1: over any sequence of rspamd_task_process calls, with any masks, handler *)
(* outcomes and session answers, no bit of processed_stages is ever cleared:  *)
(* after every step the set of set bits contains the set before it.           *)
C1_MonotonicStages ==
    [][Bits(processed_stages) \subseteq Bits(processed_stages')]_vars

(* Several stages are done, after a suspension and a resumption *)
C1_Witness ==
    /\ pc = "idle" /\ ret = "true"
    /\ Total(suspended, StageBits) > 0
    /\ Cardinality(Bits(processed_stages)) >= 4

(* C2: the processing flag is set exactly while a call is dispatching a stage *)
(* handler, so it is clear whenever a top-level call has returned; a call made *)
(* by a handler returns success at once, dispatches nothing and changes        *)
(* neither processed_stages nor any other state of the task.                   *)
C2_NoNesting ==
    /\ [](("PROCESSING" \in flags) <=> (pc = "handler"))
    /\ [][nested'.n > nested.n =>
            /\ nested'.ret = "true"
            /\ UNCHANGED <<task_vars, pending, ctl_vars, dispatched, suspended,
                           checkpoint, res_vars>>]_vars

(* A handler has called rspamd_task_process and got its answer *)
C2_Witness ==
    /\ pc = "handler" /\ nested.n > 0 /\ nested.ret = "true"
    /\ "PROCESSING" \in flags

(* C3: if pre_result.action is not MAX before the first rspamd_task_process   *)
(* call, then after that call processed_stages is exactly the DONE bit, no    *)
(* handler has been dispatched, err is unset and the call returned success.   *)
C3_PreResultShortCircuit ==
    [][(pc = "idle" /\ entry.kind = "none" /\ tick' # tick
            /\ pre_result # METRIC_ACTION_MAX) =>
         /\ processed_stages' = DoneBit
         /\ dispatched' = ZeroCount
         /\ err' = "none"
         /\ ret' = "true"
         /\ pc' = "idle"]_vars

(* The first call found a forced verdict *)
C3_Witness ==
    /\ entry.kind = "pre_result" /\ dispatched = ZeroCount
    /\ processed_stages = DoneBit /\ ret = "true" /\ pc = "idle"

(* After a suspended return the call has answered TRUE and the stage is not done *)
SuspendedReturn ==
    (pc = "idle" /\ susp.st # 0) =>
        /\ ret = "true"
        /\ ~BitAnd(processed_stages, susp.st)

(* The step in which the dispatched handler returns and the call goes on to  *)
(* its return or its tail call: with events pending the call returns and the *)
(* bit of the stage stays unset; the bit is set, and the next stage entered, *)
(* only with no events pending                                               *)
ExitOfStage ==
    (pc = "handler" /\ pc' # "handler" /\ st # DoneBit) =>
        /\ pending # 0 => (pc' = "idle" /\ ~BitAnd(processed_stages', st))
        /\ (pending # 0 /\ ret' = "true"
                /\ ~RSPAMD_TASK_IS_PROCESSED(processed_stages')) =>
             susp' = [st |-> st, stages |-> stages]
        /\ BitAnd(processed_stages', st) <=> pc' = "tail"
        /\ pc' = "tail" => pending = 0
        /\ (pending = 0 /\ pc' = "idle") =>
             (ret' = "false" \/ RSPAMD_TASK_IS_PROCESSED(processed_stages'))

(* A bit below DONE is newly set only for the dispatched stage, with no events *)
(* pending, or by the selector for a stage the mask of the call leaves out     *)
BitSetOnlyWhenDone ==
    \A b \in StageBits \ {DoneBit} :
        (~BitAnd(processed_stages, b) /\ BitAnd(processed_stages', b)) =>
            \/ pc = "handler" /\ st = b /\ pending = 0 /\ pc' = "tail"
            \/ pc # "handler" /\ pc' = "handler" /\ ~BitAnd(stages', b)

(* The next call with the same mask dispatches the suspended stage again *)
ResumeAlways ==
    (tick' # tick /\ entry'.from # 0) =>
        (pc' = "handler" /\ st' = entry'.from)

(* The same, unless the task was marked as processed or a verdict was forced  *)
(* in the meantime: then the call dispatches nothing                          *)
ResumeUnlessStopped ==
    (tick' # tick /\ entry'.from # 0) =>
        IF RSPAMD_TASK_IS_PROCESSED(processed_stages)
              \/ pre_result # METRIC_ACTION_MAX
        THEN pc' = "idle" /\ dispatched' = dispatched /\ ret' = "true"
        ELSE pc' = "handler" /\ st' = entry'.from

(* C4 (as stated): if the session reports pending events after a dispatched   *)
(* stage that neither failed nor ended the task, the call returns TRUE with   *)
(* the bit of that stage unset, and the next call with the same mask          *)
(* dispatches that same stage again; the bit is set and the next stage        *)
(* entered only when the session reports no pending events.                   *)
C4_Original ==
    /\ []SuspendedReturn
    /\ [][ExitOfStage]_vars
    /\ [][BitSetOnlyWhenDone]_vars
    /\ [][ResumeAlways]_vars

(* C4 (amended): as C4, but the next call with the same mask dispatches the   *)
(* same stage again only if the task has not been marked as processed and no  *)
(* pre-result has been set since; otherwise it returns TRUE and dispatches    *)
(* nothing.                                                                   *)
C4_SuspendResume ==
    /\ []SuspendedReturn
    /\ [][ExitOfStage]_vars
    /\ [][BitSetOnlyWhenDone]_vars
    /\ [][ResumeUnlessStopped]_vars

(* The rules stage, left suspended, is dispatched again by the next call *)
C4_Witness ==
    /\ pc = "handler" /\ st = RSPAMD_TASK_STAGE_FILTERS
    /\ entry = [kind |-> "dispatch", from |-> RSPAMD_TASK_STAGE_FILTERS]
    /\ dispatched[RSPAMD_TASK_STAGE_FILTERS] = 2
    /\ pending = 0

(* C5: once the DONE bit is set, however it came to be set, every later       *)
(* rspamd_task_process call returns success, dispatches no handler and leaves *)
(* the whole state of the task as it was.                                     *)
C5_TerminalNoOp ==
    [][(RSPAMD_TASK_IS_PROCESSED(processed_stages) /\ tick' # tick) =>
         /\ ret' = "true"
         /\ pc' = "idle"
         /\ UNCHANGED <<task_vars, pending, dispatched, suspended, events, res_vars>>]_vars

(* A call on a task that the timeout ended while a stage was suspended *)
C5_Witness ==
    /\ entry.kind = "processed" /\ ret = "true" /\ pc = "idle"
    /\ timed_out /\ Total(suspended, StageBits) > 0
    /\ dispatched[RSPAMD_TASK_STAGE_DONE] = 0
    /\ pre_result = METRIC_ACTION_MAX /\ "SKIP" \notin flags /\ err = "none"
    /\ processed_stages = BitSum({RSPAMD_TASK_STAGE_READ_MESSAGE, DoneBit})

----------------------------------------------------------------------------
(* Properties of the stage selector *)

(* The highest bit set in a bitmap, 0 for the empty bitmap *)
HighestBit(x) ==
    IF Bits(x) = {} THEN 0 ELSE CHOOSE b \in Bits(x) : \A y \in Bits(x) : y <= b

(* The requested stages below DONE that lie above the highest completed stage h *)
Candidates(h, req) ==
    {b \in StageBits : b > h /\ b < DoneBit /\ BitAnd(req, b)}

(* C6: for every bitmap done without the DONE bit and every mask req the      *)
(* selector returns the lowest stage of req above the highest bit of done, or *)
(* DONE if there is none below DONE; exactly the stages between the old       *)
(* highest bit and the returned stage, none of them in req, are newly marked. *)
C6_SelectorCorrect ==
    sel.st # 0 =>
        LET h == HighestBit(sel.done)
            c == Candidates(h, sel.req)
        IN  /\ sel.st = IF c = {} THEN DoneBit
                        ELSE CHOOSE b \in c : \A x \in c : b <= x
            /\ Bits(sel.ps) = Bits(sel.done) \cup
                   {b \in StageBits : /\ b > h /\ b < sel.st
                                      /\ ~BitAnd(sel.req, b)}
            /\ \A b \in StageBits : (h < b /\ b < sel.st)
                                        => ~BitAnd(sel.req, b)

(* READ_MESSAGE and FILTERS done, COMPOSITES and DONE requested: COMPOSITES *)
C6_Witness ==
    /\ sel.done = BitSum({RSPAMD_TASK_STAGE_READ_MESSAGE, RSPAMD_TASK_STAGE_FILTERS})
    /\ sel.req = BitSum({RSPAMD_TASK_STAGE_COMPOSITES, DoneBit})
    /\ sel.st = RSPAMD_TASK_STAGE_COMPOSITES
    /\ sel.ps = 61

(* C7: stage handlers are dispatched in ascending order of the stages - none  *)
(* after a higher stage has been dispatched - and none is dispatched once the *)
(* bit of its stage is set in processed_stages.                               *)
C7_AscendingDispatch ==
    [][\A s \in StageBits :
          dispatched'[s] > dispatched[s] =>
              /\ \A t \in StageBits : t > s => dispatched[t] = 0
              /\ ~BitAnd(processed_stages, s)
              /\ ~BitAnd(processed_stages', s)]_vars

(* Calls with different masks, one of them resumed after a suspension *)
C7_Witness ==
    /\ dispatched[RSPAMD_TASK_STAGE_FILTERS] = 1
    /\ suspended[RSPAMD_TASK_STAGE_FILTERS] = 1
    /\ dispatched[RSPAMD_TASK_STAGE_COMPOSITES] = 1
    /\ dispatched[RSPAMD_TASK_STAGE_CLASSIFIERS] = 0
    /\ pc = "handler" /\ st = DoneBit

(* C8 (as stated): the handler of each stage is executed at most once. *)
C8_Original == \A s \in StageBits : dispatched[s] <= 1

(* C8 (amended): the handler of each stage is executed at most once more than *)
(* the number of times the stage was left suspended with events pending; a    *)
(* stage that was never suspended is executed at most once.                   *)
C8_AtMostOncePerEntry == \A s \in StageBits : dispatched[s] <= suspended[s] + 1

(* The rules stage ran twice, was suspended once, and is done *)
C8_Witness ==
    /\ dispatched[RSPAMD_TASK_STAGE_FILTERS] = 2
    /\ suspended[RSPAMD_TASK_STAGE_FILTERS] = 1
    /\ BitAnd(processed_stages, RSPAMD_TASK_STAGE_FILTERS)

----------------------------------------------------------------------------
(* Properties of the resources of the task *)

(* C9: on every exit of the load each descriptor it opened has been closed    *)
(* once, and each region it mapped is unmapped once: at once when the load    *)
(* fails, otherwise by the registered destructor when the task is freed.      *)
C9_LoadResources ==
    /\ fds.opened = fds.closed
    /\ fds.opened <= 1
    /\ maps.mapped <= 1
    /\ loaded = "fail" => maps.unmapped = maps.mapped
    /\ (loaded = "ok" /\ pc # "freed") =>
           /\ maps.unmapped = 0
           /\ Cardinality({i \in 1 .. Len(dtors) : dtors[i] = "rspamd_task_unmapper"})
                  = maps.mapped
    /\ pc = "freed" => maps.unmapped = maps.mapped

(* A task that loaded a mapped message has been freed *)
C9_Witness ==
    /\ pc = "freed" /\ loaded = "ok"
    /\ maps.mapped = 1 /\ maps.unmapped = 1
    /\ fds = [opened |-> 1, closed |-> 1]

(* C10: when the task is freed every destructor registered on its pool - at   *)
(* creation, by the load, by log formatting - has run once, in the reverse of *)
(* the order of registration, and the pool is released only then.             *)
C10_DestructorsLifo ==
    /\ pc = "freed" =>
           /\ pool = "deleted"
           /\ Len(dtor_log) = Len(dtors)
           /\ \A i \in 1 .. Len(dtors) : dtor_log[i] = dtors[Len(dtors) + 1 - i]
    /\ pc # "freed" => (pool = "alive" /\ dtor_log = <<>>)

(* Freed with the destructors of creation, of the load and of the log *)
C10_Witness ==
    /\ pc = "freed"
    /\ Len(dtors) = Len(rspamd_task_new_destructors) + 2
    /\ dtors[Len(dtors)] = "rspamd_fstring_free"
    /\ dtors[Len(dtors) - 1] = "rspamd_task_unmapper"
    /\ dtor_log[1] = "rspamd_fstring_free"
    /\ dtor_log[2] = "rspamd_task_unmapper"
    /\ dtor_log[Len(dtor_log)] = "results"

----------------------------------------------------------------------------
(* Properties of the message load *)

(* The source of highest precedence among the headers of a request *)
Precedence(hdrs) ==
    IF "shm" \in hdrs THEN "shm"
    ELSE IF "file" \in hdrs THEN "file"
    ELSE IF "path" \in hdrs THEN "path"
    ELSE "inline"

(* C11: for every combination of the shm, file and path headers and of inline *)
(* bytes a successful load takes msg from the source of highest precedence -  *)
(* shm, then file, then path, then the inline bytes - and sets the FILE flag  *)
(* exactly when that source is shm, file or path; a load whose source of      *)
(* highest precedence fails does not fall back to a lower one.                *)
C11_LoadPrecedence ==
    /\ loaded = "ok" =>
           /\ msg.src = Precedence(load_in.hdrs)
           /\ ("FILE" \in flags) <=> (msg.src \in {"shm", "file", "path"})
           /\ maps.mapped = IF msg.src = "inline" THEN 0 ELSE 1
           /\ msg.src = "inline" => msg.begin + msg.len = load_in.len
    /\ (loaded = "fail" /\ load_in.hdrs # {}) =>
           /\ msg = NoMsg
           /\ "FILE" \notin flags

(* All three headers and inline bytes: the message is the shm segment *)
C11_Witness ==
    /\ loaded = "ok"
    /\ load_in.hdrs = {"shm", "file", "path"} /\ load_in.len > 0
    /\ msg.src = "shm" /\ "FILE" \in flags

(* C12: whenever the load returns failure - the source cannot be opened,      *)
(* stat'ed or mapped, shm-offset or shm-length exceeds the segment size, or   *)
(* the control length is invalid - task->err is set, to a protocol error.     *)
C12_LoadFailureSetsErr ==
    loaded = "fail" => err = "protocol_error"

(* C13: when HAS_CONTROL is set and the declared message length exceeds the   *)
(* length received, the load fails with a protocol error and changes nothing  *)
(* else in the task: msg and the flags are as they were before the call.      *)
C13_InvalidLengthNoMutation ==
    [][(/\ loaded = "no" /\ loaded' # "no"
        /\ load_in'.hdrs = {} /\ load_in'.has_control
        /\ load_in'.message_len > load_in'.len)
       => /\ loaded' = "fail"
          /\ err' = "protocol_error"
          /\ msg' = msg
          /\ flags' = HandleHeaders(flags, load_in')]_vars

(* The bytes received from the source of the load, before the control chunk *)
(* is taken off: where they begin and how many they are                      *)
Received ==
    CASE msg.src = "shm" ->
            [begin |-> IF load_in.has_off THEN rspamd_strtoul(load_in.off) ELSE 0,
             len   |-> IF load_in.has_length THEN rspamd_strtoul(load_in.length)
                       ELSE load_in.size]
      [] msg.src \in {"file", "path"} -> [begin |-> 0, len |-> load_in.size]
      [] OTHER -> [begin |-> 0, len |-> load_in.len]

(* C14: whenever HAS_CONTROL is set and the load succeeds with a positive     *)
(* control length, msg begins control_len bytes after the start of the bytes  *)
(* received and is as long as the declared message length, whether or not the *)
(* control chunk parsed, whichever source the bytes came from.                *)
C14_ControlPrefixConsumed ==
    (/\ loaded = "ok" /\ "HAS_CONTROL" \in flags
     /\ Received.len - load_in.message_len > 0)
    => /\ msg.begin = Received.begin + (Received.len - load_in.message_len)
       /\ msg.len = load_in.message_len

(* C15: after every successful load the window [begin, begin + len) of msg    *)
(* lies inside the bytes it borrows from - the inline buffer or the region    *)
(* the load mapped - and that region stays mapped until the task is freed.    *)
C15_MsgWindowInside ==
    (loaded = "ok" /\ pc # "freed") =>
        /\ msg.begin + msg.len <= IF msg.src = "inline" THEN load_in.len
                                  ELSE maps.size
        /\ msg.src # "inline" => (maps.mapped = 1 /\ maps.unmapped = 0)

----------------------------------------------------------------------------
(* Properties of the finalizer and of the stage handlers *)

(* A step in which rspamd_task_fin returns: its rspamd_task_process call      *)
(* returns, or it ran through without leaving the task in a handler           *)
FinDone ==
    \/ caller = "fin" /\ pc # "idle" /\ pc' = "idle"
    \/ pc = "idle" /\ pc' = "idle" /\ (replies' # replies \/ fin_ret' # fin_ret)

(* C16: each rspamd_task_fin writes the reply exactly once and returns TRUE   *)
(* if the task is processed at entry (rspamd_task_process is not called then) *)
(* or its rspamd_task_process call fails or leaves the task processed;        *)
(* otherwise it writes no reply and returns FALSE. The reply goes through     *)
(* fin_callback when it is set and through the protocol writer otherwise,     *)
(* never both; nothing else writes a reply.                                   *)
C16_FinReplies ==
    [][LET n == (replies'.callback + replies'.protocol)
                    - (replies.callback + replies.protocol)
       IN  /\ FinDone =>
                /\ fin_ret' = Str(\/ ret' = "false"
                                  \/ RSPAMD_TASK_IS_PROCESSED(processed_stages'))
                /\ n = IF fin_ret' = "true" THEN 1 ELSE 0
                /\ (pc = "idle" /\ RSPAMD_TASK_IS_PROCESSED(processed_stages))
                       => (tick' = tick /\ fin_ret' = "true")
                /\ replies'.callback - replies.callback = IF fin_callback THEN n ELSE 0
                /\ replies'.protocol - replies.protocol = IF fin_callback THEN 0 ELSE n
           /\ ~FinDone => (replies' = replies /\ fin_ret' = fin_ret)]_vars

(* A task with a callback: one rspamd_task_fin yielded, the next one failed *)
C16_Witness ==
    /\ fin_callback /\ replies = [callback |-> 1, protocol |-> 0]
    /\ fin_ret = "true" /\ ret = "false" /\ pc = "idle"
    /\ Total(suspended, StageBits) > 0 /\ ~timed_out

(* A step in which a top-level rspamd_task_process returns *)
TopReturn ==
    \/ pc # "idle" /\ pc' = "idle"
    \/ pc = "idle" /\ pc' = "idle" /\ tick' # tick

FailingStages == {RSPAMD_TASK_STAGE_READ_MESSAGE, RSPAMD_TASK_STAGE_FILTERS}

(* C17: rspamd_task_process returns FALSE exactly when rspamd_message_parse   *)
(* or rspamd_process_filters reported failure in that call; the DONE bit is   *)
(* then set on return, the bit of the failed stage is not, and no stage is    *)
(* dispatched any more, in that call or a later one.                          *)
C17_FailureExactly ==
    [][/\ TopReturn =>
            /\ ret' = "false" <=> (hres'.st \in FailingStages /\ ~hres'.ok)
            /\ ret' = "false" =>
                   /\ RSPAMD_TASK_IS_PROCESSED(processed_stages')
                   /\ ~BitAnd(processed_stages', hres'.st)
       /\ (hres' # hres /\ hres'.st \in FailingStages /\ ~hres'.ok) =>
              (pc' = "idle" /\ ret' = "false")
       /\ (ret = "false" \/ RSPAMD_TASK_IS_PROCESSED(processed_stages)) =>
              dispatched' = dispatched]_vars

(* The rules engine failed in the call that resumed a suspended pre-filter *)
C17_Witness ==
    /\ pc = "idle" /\ ret = "false"
    /\ hres = [st |-> RSPAMD_TASK_STAGE_FILTERS, ok |-> FALSE]
    /\ suspended[RSPAMD_TASK_STAGE_PRE_FILTERS] = 1
    /\ processed_stages = BitSum({RSPAMD_TASK_STAGE_READ_MESSAGE,
                                  RSPAMD_TASK_STAGE_PRE_FILTERS, DoneBit})

(* C18: in the three learn stages rspamd_stat_learn is invoked only if        *)
(* LEARN_SPAM or LEARN_HAM is set and task->err is unset; if it fails, the    *)
(* DONE bit is set, so that the call returns and no later learn stage runs,   *)
(* and task->err is set to its error if and only if LEARN_AUTO is not set.    *)
C18_LearnStages ==
    [][/\ calls'["rspamd_stat_learn"] > calls["rspamd_stat_learn"] =>
            /\ st' \in LearnStages
            /\ flags' \cap {"LEARN_SPAM", "LEARN_HAM"} # {}
            /\ err' = "none"
       /\ (dispatched' # dispatched /\ st' \in LearnStages
             /\ (flags' \cap {"LEARN_SPAM", "LEARN_HAM"} = {} \/ err' # "none")) =>
              calls'["rspamd_stat_learn"] = calls["rspamd_stat_learn"]
       /\ (hres' # hres /\ hres'.st \in LearnStages /\ ~hres'.ok) =>
            /\ RSPAMD_TASK_IS_PROCESSED(processed_stages')
            /\ pc' = "idle" /\ ret' = "true"
            /\ err' # "none" <=> "LEARN_AUTO" \notin flags
            /\ "LEARN_AUTO" \notin flags => err' = "stat_error"]_vars

(* Automatic learning failed in the first learn stage: no error is stored *)
C18_Witness ==
    /\ hres = [st |-> RSPAMD_TASK_STAGE_LEARN_PRE, ok |-> FALSE]
    /\ "LEARN_AUTO" \in flags /\ err = "none"
    /\ calls["rspamd_stat_learn"] = 1
    /\ RSPAMD_TASK_IS_PROCESSED(processed_stages)
    /\ dispatched[RSPAMD_TASK_STAGE_LEARN] = 0

SwallowStages ==
    {RSPAMD_TASK_STAGE_PRE_FILTERS, RSPAMD_TASK_STAGE_COMPOSITES,
     RSPAMD_TASK_STAGE_POST_FILTERS} \cup ClassifierStages

(* C19: an error inside a pre-filter, classifier, composites or post-filter   *)
(* stage never makes rspamd_task_process return FALSE, never sets the DONE    *)
(* bit and never sets task->err: the stage ends as if its handler had         *)
(* succeeded - suspended if events are pending, else marked with the next     *)
(* stage to follow. With the EMPTY flag set rspamd_stat_classify and          *)
(* rspamd_stat_check_autolearn are never invoked.                             *)
C19_SwallowedErrors ==
    [][/\ (hres' # hres /\ hres'.st \in SwallowStages /\ ~hres'.ok) =>
            /\ err' = err
            /\ pc' = "idle" => ret' = "true"
            /\ RSPAMD_TASK_IS_PROCESSED(processed_stages') <=>
                   RSPAMD_TASK_IS_SKIPPED(flags)
            /\ ~RSPAMD_TASK_IS_SKIPPED(flags) =>
                   IF pending = 0
                   THEN pc' = "tail" /\ BitAnd(processed_stages', hres'.st)
                   ELSE pc' = "idle" /\ ~BitAnd(processed_stages', hres'.st)
       /\ RSPAMD_TASK_IS_EMPTY(flags') =>
            /\ calls'["rspamd_stat_classify"] = 0
            /\ calls'["rspamd_stat_check_autolearn"] = 0]_vars

(* The classifier reported an error and the pipeline goes on to the next stage *)
C19_Witness ==
    /\ hres = [st |-> RSPAMD_TASK_STAGE_CLASSIFIERS, ok |-> FALSE]
    /\ pc = "tail" /\ err = "none"
    /\ BitAnd(processed_stages, RSPAMD_TASK_STAGE_CLASSIFIERS)
    /\ calls["rspamd_stat_classify"] = 2

----------------------------------------------------------------------------
(* Properties of the principal recipient *)

(* C20: once rspamd_task_get_principal_recipient has returned a value, every  *)
(* later call on the task returns the same pointer, whatever was done to      *)
(* deliver_to, rcpt_envelope and rcpt_mime in between; and two calls with     *)
(* nothing in between return the same result, both NULL or the same pointer.  *)
C20_PrincipalIdempotent ==
    [][principal'.n > principal.n =>
           /\ principal.first # 0 => principal'.last = principal.first
           /\ principal.fresh => principal'.last = principal.last]_vars

(* The third call, after the recipients were replaced, returns the pointer  *)
(* the first call returned                                                   *)
C20_Witness ==
    /\ principal.n = 3 /\ principal.first = 1 /\ principal.last = 1
    /\ ~principal.fresh
    /\ deliver_to = {<<"b">>} /\ heap = <<<<"a">>>>

(* The source the documented precedence selects, before the call: {} for none *)
FirstAvailable ==
    IF recipient # 0 THEN {heap[recipient]}
    ELSE IF deliver_to # {} THEN {rspamd_str_lc(CHOOSE x \in deliver_to : TRUE)}
    ELSE IF rcpt_envelope.present /\ Len(rcpt_envelope.addrs) > 0
            /\ rcpt_envelope.addrs[1] # {}
    THEN {rspamd_str_lc(CHOOSE x \in rcpt_envelope.addrs[1] : TRUE)}
    ELSE IF FirstMailbox(rcpt_mime) # {}
    THEN {rspamd_str_lc(CHOOSE x \in FirstMailbox(rcpt_mime) : TRUE)}
    ELSE {}

(* C21: a call of rspamd_task_get_principal_recipient returns the lowercased *)
(* copy of the first available source in the order cached "recipient",       *)
(* deliver_to, first address of a non-empty rcpt_envelope, first mailbox of  *)
(* rcpt_mime, and NULL when there is none; a rcpt_envelope that is present   *)
(* but empty counts as not available and no element of it is read.           *)
C21_PrincipalPrecedence ==
    [][(principal'.n > principal.n \/ (~principal.crashed /\ principal'.crashed)) =>
           /\ ~principal'.crashed
           /\ FirstAvailable = IF principal'.last = 0 THEN {}
                               ELSE {heap'[principal'.last]}]_vars

----------------------------------------------------------------------------
(* Properties of the log formatter *)

(* s1 comes before s2 in the documented order: |score| descending, then    *)
(* name ascending                                                           *)
Before(s1, s2) ==
    \/ s1.score.hi > s2.score.hi
    \/ s1.score.hi = s2.score.hi /\ s1.score.lo > s2.score.lo
    \/ s1.score.hi = s2.score.hi /\ s1.score.lo = s2.score.lo
         /\ strcmp(s1.name, s2.name) < 0

(* The symbols of iter in the documented order *)
Documented(iter) ==
    CHOOSE q \in Orders({iter[i] : i \in DOMAIN iter}) :
        \A i \in 1 .. Len(q) - 1 : Before(q[i], q[i + 1])

(* C22: the SYMBOLS rendering of a set of symbols is the same for every     *)
(* iteration order of the symbol table: the symbols sorted by |score|       *)
(* descending, ties broken by name ascending, for any scores, including     *)
(* scores closer than 0.001 and large differences.                          *)
C22_SymbolsOrder ==
    (log.kind = "symbols" /\ log.done) =>
        log.out = RenderSymbolList(Documented(log.in.iter), log.in.lf_flags)

(* The addresses list the first n addresses, comma-separated *)
CommaList(n) ==
    Concat([i \in 1 .. n |-> (IF i = 1 THEN <<>> ELSE <<Lit(",")>>) \o <<Addr(i)>>])

(* C23: an address list (SMTP_RCPTS, MIME_RCPTS) of n addresses is rendered *)
(* as its first 7 addresses, comma-separated, followed by "..." when n > 7, *)
(* and as all n addresses, comma-separated, with no "..." and no trailing   *)
(* comma when n <= 7.                                                       *)
C23_ListTruncation ==
    (/\ log.kind = "addrs" /\ log.done
     /\ log.in.type \in {"SMTP_RCPTS", "MIME_RCPTS"} /\ log.in.data = {}
     /\ \A i \in DOMAIN log.in.elts : log.in.elts[i] # {}) =>
        LET n == Len(log.in.elts)
        IN  log.out = IF n > max_log_elts
                      THEN CommaList(max_log_elts) \o <<Lit("...")>>
                      ELSE CommaList(n)

(* C24: for a finalized task the ISSPAM variable renders exactly one       *)
(* character: "S" if the skip flag is set, otherwise "T" if the action of   *)
(* the default metric is reject, otherwise "F"; an empty inline message     *)
(* that went through all stages renders "F", and a task that a forced       *)
(* reject verdict took to the end without any handler renders "T".          *)
C24_IsSpamOneChar ==
    (fin_ret = "true" /\ logged) =>
        \A m \in DefaultMetricResults :
            LogIsSpam(flags, m) =
                IF "SKIP" \in flags THEN <<Lit("S")>>
                ELSE IF \/ m = "reject"
                        \/ /\ pre_result = METRIC_ACTION_REJECT
                           /\ \A b \in StageBits : dispatched[b] = 0
                THEN <<Lit("T")>>
                ELSE <<Lit("F")>>

(* What item lf adds to the record, by the documentation of the item types *)
Contribution(lf, task) ==
    CASE lf.type = "STRING" -> <<Lit("s")>>
      [] lf.type = "LUA"    -> IF lf.lua = "string" THEN <<Txt("lua")>> ELSE <<>>
      [] lf.type = "MID"    ->
           IF lf.cond /\ task.message_id \in {{}, {"undef"}} THEN <<>>
           ELSE IF task.message_id = {} THEN <<Txt("undef")>>
           ELSE <<Txt(CHOOSE x \in task.message_id : TRUE)>>
      [] OTHER              -> LogIsSpam(task.flags, task.mres)

(* C25: one call of rspamd_task_write_log emits exactly one record, built  *)
(* from the format items in their configured order, when a format is       *)
(* configured and the no-log flag is clear, and emits nothing, evaluates no *)
(* item and calls no scripted callback otherwise; a scripted item whose     *)
(* callback fails adds nothing and the items after it are still evaluated.  *)
C25_OneLogRecord ==
    (log.kind = "write_log" /\ log.done) =>
        LET in == log.in
        IN  IF in.log_format # {} /\ "NO_LOG" \notin in.task.flags
            THEN LET format == CHOOSE x \in in.log_format : TRUE
                 IN  /\ Len(log.out.records) = 1
                     /\ log.out.evaluated = [i \in 1 .. Len(format) |-> i]
                     /\ log.out.records[1] =
                            Concat([i \in 1 .. Len(format) |->
                                      Contribution(format[i], in.task)])
            ELSE /\ log.out.records = <<>>
                 /\ log.out.evaluated = <<>>
                 /\ log.out.lua_calls = 0

(* A format whose first item is a failing scripted callback and whose       *)
(* second item is a literal: one record with the literal                    *)
C25_Witness ==
    /\ log.kind = "write_log" /\ log.done
    /\ log.in.log_format = {<<Item("LUA", FALSE, "fail"), Item("STRING", FALSE, "none")>>}
    /\ log.out.records = <<<<Lit("s")>>>>
    /\ log.out.lua_calls = 1

----------------------------------------------------------------------------
(* Termination of the pipeline *)

(* A top-level rspamd_task_process (task, RSPAMD_TASK_PROCESS_ALL) returns   *)
(* from a stage or a tail call; the task was never suspended, so it is the   *)
(* call that took the loaded task from its first stage; the session has no  *)
(* pending events and the last handler did not report failure               *)
AllInOneCall ==
    /\ pc # "idle" /\ pc' = "idle"
    /\ stages = RSPAMD_TASK_PROCESS_ALL
    /\ Total(suspended', StageBits) = 0
    /\ pending' = 0
    /\ hres'.ok

(* Every stage before DONE was dispatched once *)
AllDispatched(d) == \A b \in StageBits \ {RSPAMD_TASK_STAGE_DONE} : d[b] = 1

(* C26 as stated: without pending events and failing handlers one call with *)
(* all stages on a loaded task dispatches the stages READ_MESSAGE through   *)
(* LEARN_POST and returns success with the DONE bit set; and if every       *)
(* suspension is followed by a rspamd_task_fin call with no events pending, *)
(* rspamd_task_fin eventually returns TRUE, whatever mask the first call    *)
(* asked for.                                                               *)
C26_Original ==
    /\ [][AllInOneCall =>
            /\ ret' = "true"
            /\ RSPAMD_TASK_IS_PROCESSED(processed_stages')
            /\ AllDispatched(dispatched')]_vars
    /\ loaded = "ok" ~> fin_ret = "true"

(* C26: without pending events and failing handlers one call with all       *)
(* stages on a loaded task returns success with the DONE bit set, and it    *)
(* has dispatched each of the stages READ_MESSAGE through LEARN_POST once   *)
(* unless a handler set the skip flag or forced a verdict; and if handlers  *)
(* add events only finitely often and every suspension is followed by a     *)
(* rspamd_task_fin call with no events pending, rspamd_task_fin eventually  *)
(* returns TRUE, whatever mask the first call asked for.                    *)
C26_Terminates ==
    /\ [][AllInOneCall =>
            /\ ret' = "true"
            /\ RSPAMD_TASK_IS_PROCESSED(processed_stages')
            /\ ("SKIP" \notin flags' /\ pre_result' = METRIC_ACTION_MAX)
                   => AllDispatched(dispatched')]_vars
    /\ loaded = "ok" ~> fin_ret = "true"

(* rspamd_task_fin has returned TRUE for a task that was suspended on      *)
(* pending events and resumed by the session: every stage up to LEARN_POST  *)
(* was dispatched and the DONE bit is set                                   *)
C26_Witness ==
    /\ fin_ret = "true" /\ ret = "true"
    /\ RSPAMD_TASK_IS_PROCESSED(processed_stages)
    /\ Total(suspended, StageBits) > 0 /\ events > 0 /\ pending = 0
    /\ "SKIP" \notin flags /\ pre_result = METRIC_ACTION_MAX
    /\ dispatched[RSPAMD_TASK_STAGE_LEARN_POST] = 1

----------------------------------------------------------------------------
(* Reference counts *)

(* rspamd_task_free is called *)
Freed == pc # "freed" /\ pc' = "freed"

(* C27: a task created with a configuration holds exactly one reference to  *)
(* it and a task created without one holds none; rspamd_task_free releases  *)
(* exactly one reference to the configuration if there is one, exactly one  *)
(* to from_envelope if it is set and exactly one to each element of         *)
(* rcpt_envelope; nothing else changes the task's count on the             *)
(* configuration.                                                           *)
C27_RefsBalanced ==
    /\ [](cfg_refs = IF cfg /\ pc # "freed" THEN 1 ELSE 0)
    /\ [][Freed =>
            /\ cfg_refs' = cfg_refs - (IF cfg THEN 1 ELSE 0)
            /\ addr_refs'.from = addr_refs.from - (IF from_envelope THEN 1 ELSE 0)
            /\ Len(addr_refs'.rcpt) = Len(rcpt_envelope.addrs)
            /\ \A i \in 1 .. Len(rcpt_envelope.addrs) :
                   addr_refs'.rcpt[i] = addr_refs.rcpt[i] - 1]_vars
    /\ [][~Freed => cfg_refs' = cfg_refs]_vars

(* A task with a configuration, a sender and two envelope recipients, the  *)
(* second of them also held by someone else, has been freed                 *)
C27_Witness ==
    /\ pc = "freed" /\ cfg /\ cfg_refs = 0
    /\ from_envelope /\ addr_refs.from = 0
    /\ Len(rcpt_envelope.addrs) = 2 /\ addr_refs.rcpt = <<0, 1>>

----------------------------------------------------------------------------
(* Short circuits of the pipeline *)

(* rspamd_task_process is entered past its guard against nested calls: by a *)
(* top-level call or by the tail call of the running one                     *)
Entered == (pc = "idle" /\ tick' # tick) \/ (pc = "tail" /\ pc' # "tail")

(* C28: once pre_result.action is not MAX, whether a handler set it in the   *)
(* middle of the pipeline or it was there from the start, no stage is        *)
(* dispatched any more; the next time rspamd_task_process is entered, by     *)
(* the tail call or by the next top-level call, it only sets the DONE bit    *)
(* and returns TRUE, and err is left as it was.                              *)
C28_PreResultStops ==
    /\ [][pre_result # METRIC_ACTION_MAX => dispatched' = dispatched]_vars
    /\ [][(Entered /\ pre_result # METRIC_ACTION_MAX) =>
            /\ processed_stages' = BitOr(processed_stages, RSPAMD_TASK_STAGE_DONE)
            /\ flags' = flags
            /\ err' = err
            /\ pc' = "idle" /\ ret' = "true"]_vars

(* A pre-filter forced a verdict and registered an event; the call returned *)
(* suspended and the next call ended the task without another dispatch      *)
C28_Witness ==
    /\ pre_result # METRIC_ACTION_MAX
    /\ suspended[RSPAMD_TASK_STAGE_PRE_FILTERS] = 1
    /\ dispatched[RSPAMD_TASK_STAGE_PRE_FILTERS] = 1
    /\ dispatched[RSPAMD_TASK_STAGE_FILTERS] = 0
    /\ entry.kind = "pre_result" /\ pc = "idle" /\ ret = "true"
    /\ RSPAMD_TASK_IS_PROCESSED(processed_stages)
    /\ ~BitAnd(processed_stages, RSPAMD_TASK_STAGE_PRE_FILTERS)

(* The switch of the dispatched stage is left *)
DispatchFinishes == pc = "handler" /\ pc' # "handler"

(* C29: if the skipped flag is set when the dispatch of a stage finishes,    *)
(* the call sets the DONE bit and returns in that step, whether events are   *)
(* pending or not: it is not counted as suspended, the bit of the stage is   *)
(* not set, and no stage is dispatched from then on.                         *)
C29_SkipStops ==
    /\ [][(DispatchFinishes /\ RSPAMD_TASK_IS_SKIPPED(flags)) =>
            /\ pc' = "idle"
            /\ RSPAMD_TASK_IS_PROCESSED(processed_stages')
            /\ st # DoneBit => (BitAnd(processed_stages', st) <=> BitAnd(processed_stages, st))
            /\ suspended' = suspended /\ susp' = susp
            /\ dispatched' = dispatched]_vars
    /\ [][(RSPAMD_TASK_IS_SKIPPED(flags) /\ pc # "handler") =>
            dispatched' = dispatched]_vars

(* A pre-filter set the skipped flag and registered an event: the call has  *)
(* returned with the DONE bit while the event is still pending              *)
C29_Witness ==
    /\ RSPAMD_TASK_IS_SKIPPED(flags) /\ pending > 0 /\ pc = "idle"
    /\ hres.st = RSPAMD_TASK_STAGE_PRE_FILTERS
    /\ RSPAMD_TASK_IS_PROCESSED(processed_stages)
    /\ ~BitAnd(processed_stages, RSPAMD_TASK_STAGE_PRE_FILTERS)
    /\ suspended = ZeroCount
    /\ dispatched[RSPAMD_TASK_STAGE_FILTERS] = 0

----------------------------------------------------------------------------
(* The checkpoint *)

(* C30: rspamd_task_process resets task->checkpoint exactly in the step     *)
(* that marks the dispatched stage as done and goes on to the tail call;    *)
(* a call that returns, at the guard against nested calls, for a processed  *)
(* task, for a forced verdict, after a failing handler, for the skipped     *)
(* flag or with events pending, leaves it as it is, and so does everything  *)
(* between two calls: the handler of a suspended stage is entered again     *)
(* with the checkpoint it left.                                             *)
C30_CheckpointCleared ==
    /\ [][DispatchFinishes =>
            /\ pc' = "tail" <=> BitAnd(processed_stages', st) /\ st # DoneBit
            /\ pc' = "tail" => checkpoint' = "null"
            /\ pc' # "tail" => checkpoint' = checkpoint]_vars
    /\ [][checkpoint' # checkpoint =>
            /\ pc = "handler"
            /\ \/ pc' = "tail" /\ checkpoint' = "null"
               \/ pc' = "handler" /\ nested' = nested /\ checkpoint' = "set"]_vars

(* The rules engine stashed its checkpoint and registered an event: the     *)
(* call has returned suspended and the checkpoint is still there            *)
C30_Witness ==
    /\ pc = "idle" /\ checkpoint = "set" /\ pending > 0
    /\ susp.st = RSPAMD_TASK_STAGE_FILTERS
    /\ suspended[RSPAMD_TASK_STAGE_FILTERS] = 1
    /\ ~BitAnd(processed_stages, RSPAMD_TASK_STAGE_FILTERS)
    /\ ~RSPAMD_TASK_IS_PROCESSED(processed_stages)

----------------------------------------------------------------------------
(* Properties of the variable items *)

(* The resolved value of a variable: for a list variable what the list     *)
(* writer has collected, else the value of the switch                      *)
ResolvedValue(type, task) ==
    IF type \in ListVars
    THEN IF ListField(type, task) = {} THEN <<>>
         ELSE LET list == CHOOSE x \in ListField(type, task) : TRUE
              IN  WriteListFrom(list, IF ListLimit(type) <= 0 THEN Len(list)
                                      ELSE ListLimit(type), 0, <<>>)
    ELSE LogVarValue(type, task)

(* The data with every $ replaced by the value, the value alone for NULL *)
Substituted(data, value) ==
    IF data = {} THEN value
    ELSE LET c == CHOOSE x \in data : TRUE
         IN  Concat([i \in 1 .. Len(c) |-> IF c[i] = Lit("$") THEN value ELSE <<c[i]>>])

(* An item without the condition flag has been rendered *)
Rendered == log.kind = "variable" /\ log.done /\ ~log.in.lf.cond

(* C31 as stated: for every resolved value, the empty one included, a       *)
(* variable item appends its data with every $ replaced by the value and    *)
(* every other character as it is, and the value alone when data is NULL.   *)
C31_Original ==
    Rendered =>
        log.out = Substituted(log.in.lf.data, ResolvedValue(log.in.lf.type, log.in.task))

(* C31: for a resolved value that is not empty a variable item appends its  *)
(* data with every $ replaced by the value and every other character as it  *)
(* is, in order, and the value alone when data is NULL; for an empty value  *)
(* it appends nothing, whatever its data.                                   *)
C31_Substitution ==
    Rendered =>
        LET value == ResolvedValue(log.in.lf.type, log.in.task)
        IN  log.out = IF value = <<>> THEN <<>>
                      ELSE Substituted(log.in.lf.data, value)

(* The queue id has been rendered into a data with two $ around a letter *)
C31_Witness ==
    /\ Rendered /\ log.in.lf.type = "QID" /\ log.in.task.queue_id = {"id"}
    /\ log.in.lf.data = {<<Lit("$"), Lit("a"), Lit("$")>>}
    /\ log.out = <<Txt("id"), Lit("a"), Txt("id")>>


(* The source of a variable is present and is not a sentinel *)
SourcePresent(type, task) ==
    LET Set(f) == f # {}
        NonEmptyList(f) == f # {} /\ \A l \in f : Len(l) > 0
    IN  CASE type = "MID"  -> Set(task.message_id) /\ task.message_id # {"undef"}
          [] type = "QID"  -> Set(task.queue_id) /\ task.queue_id # {"undef"}
          [] type = "USER" -> Set(task.user)
          [] type = "IP"   -> task.from_addr = "valid"
          [] type = "SMTP_FROM" -> Set(task.from_envelope)
          [] type \in {"SMTP_RCPT", "SMTP_RCPTS"} -> NonEmptyList(task.rcpt_envelope)
          [] type \in {"MIME_RCPT", "MIME_RCPTS"} -> NonEmptyList(task.rcpt_mime)
          [] type = "MIME_FROM" -> NonEmptyList(task.from_mime)
          [] OTHER -> TRUE

(* An item with the condition flag has been rendered *)
RenderedCond == log.kind = "variable" /\ log.done /\ log.in.lf.cond

(* C32: an item with the CONDITION flag adds nothing to the log line when   *)
(* its source is absent or a sentinel, and what the same item without the   *)
(* flag adds when its source is present; the source is present when MID or  *)
(* QID is set and not "undef", USER is set, IP is present and valid,        *)
(* SMTP_FROM is present, the list of SMTP_RCPT(S), MIME_RCPT(S) or          *)
(* MIME_FROM is present and not empty, and always for the other items.      *)
C32_Condition ==
    RenderedCond =>
        log.out = IF SourcePresent(log.in.lf.type, log.in.task)
                  THEN WriteVariableItem([log.in.lf EXCEPT !.cond = FALSE], log.in.task)
                  ELSE <<>>

(* A conditioned queue id with a data has been rendered for a task whose    *)
(* queue id is the sentinel                                                 *)
C32_Witness ==
    /\ RenderedCond
    /\ log.in.lf.type = "QID" /\ log.in.task.queue_id = {"undef"}
    /\ log.in.lf.data = {<<Lit("a"), Lit("$")>>} /\ log.out = <<>>


----------------------------------------------------------------------------
(* The empty-message flag *)

(* C33: after every successful load the empty-message flag is set if and    *)
(* only if the final window of the message has length zero, whatever the    *)
(* source (inline, file, shm) and also after a control chunk was stripped.  *)
C33_EmptyFlag ==
    loaded = "ok" => (RSPAMD_TASK_IS_EMPTY(flags) <=> msg.len = 0)


----------------------------------------------------------------------------
(* The multi-line mode of the REPL *)

(* The line starts with '.' and the text up to its first blank is the name  *)
(* of a registered command                                                  *)
NamesCommand(line) ==
    /\ line # <<>> /\ Head(line) = "."
    /\ LET t == Tail(line)
           blanks == {i \in DOMAIN t : t[i] = " "}
           k == IF blanks = {} THEN Len(t)
                ELSE (CHOOSE i \in blanks : \A j \in blanks : i <= j) - 1
       IN  \E c \in cmds : SubSeq(t, 1, k) = <<c>>

(* The lines in input order, each closed by " \n" *)
Accumulated(lines) == Concat([i \in DOMAIN lines |-> lines[i] \o <<" ", "\n">>])

(* The loop has read the line l *)
Reads(l) == repl' # repl /\ repl'.input = {l}

InputEnds == repl' # repl /\ repl'.input = {}

NothingRun == repl'.exec = repl.exec /\ repl'.dot = repl.dot

(* C34: the lines entered between a "{{" line and the next "}}" line are    *)
(* neither executed nor dispatched as dot commands; on "}}" the accumulated *)
(* text, the lines in input order, is executed once and recorded as one     *)
(* history entry, and the REPL is back in single-line mode; if the input    *)
(* ends before "}}" the text is discarded and nothing is executed. Outside  *)
(* multi-line mode every line is handled once: as a dot command if it       *)
(* starts with '.' and names a registered command, else as Lua input.       *)
C34_Multiline ==
    /\ [][\A l \in Lines : repl.is_multiline /\ Reads(l) /\ l # <<"}}">> =>
              /\ NothingRun /\ repl'.history = repl.history
              /\ repl'.is_multiline /\ repl'.block = Append(repl.block, l)]_vars
    /\ [][repl.is_multiline /\ Reads(<<"}}">>) =>
              /\ repl'.exec = Append(repl.exec, Accumulated(repl.block))
              /\ repl'.dot = repl.dot
              /\ Len(repl'.history) = Len(repl.history) + 1
              /\ ~repl'.is_multiline /\ repl'.pc = "run"]_vars
    /\ [][InputEnds =>
              /\ NothingRun /\ repl'.history = repl.history
              /\ repl'.tb = {} /\ repl'.pc = "returned"]_vars
    /\ [][~repl.is_multiline /\ Reads(<<"{{">>) =>
              /\ NothingRun /\ repl'.is_multiline /\ repl'.block = <<>>]_vars
    /\ [][\A l \in Lines : ~repl.is_multiline /\ Reads(l) /\ l # <<"{{">> =>
              /\ ~repl'.is_multiline
              /\ IF NamesCommand(l)
                 THEN /\ Len(repl'.dot) = Len(repl.dot) + 1
                      /\ repl'.exec = repl.exec
                 ELSE /\ repl'.exec = Append(repl.exec, l)
                      /\ repl'.dot = repl.dot]_vars

(* A dot command and a word were entered between "{{" and "}}": their text  *)
(* has been executed once, in one piece, and no command was dispatched      *)
C34_Witness ==
    /\ repl.input = {<<"}}">>} /\ ~repl.is_multiline
    /\ repl.block = << <<".", "help">>, <<"x">> >>
    /\ repl.exec = << <<".", "help", " ", "\n", "x", " ", "\n">> >>
    /\ repl.dot = <<>> /\ Len(repl.history) = 1

====
